---- MODULE Spec2Model ----
(***************************************************************************)
(* A model of the content pipeline of unitedtribes-content-pipeline:       *)
(* the S3 uploader (shared/s3_uploader.py), the fetcher                    *)
(* (shared/fetcher.py), the extractor (shared/extractor.py), the validator *)
(* and safety gate (shared/validator.py) and the drivers that chain them   *)
(* (articles/base_scraper.py, cron/scraper_job.py).                        *)
(*                                                                         *)
(* Each component has its own specification (SpecUpload, SpecFetch, ...):  *)
(* the variables of the other components keep their idle values there.     *)
(***************************************************************************)
EXTENDS Integers, Sequences, FiniteSets, Bags, TLC

\* ------------------------------------------------------------------------
\* Bounds of the model and constants of the program
\* ------------------------------------------------------------------------

\* Longest batch handed to upload_batch.
MaxBatch == 3
\* Last second the wall clock reaches (datetime.utcnow at second resolution).
MaxClock == 1
\* Storage and client failures injected in one run.
MaxFaults == 1

\* s3_uploader.py:267 `while counter < 100`
CounterLimit == 100

\* Derived base keys scraped-content/{artist}/{thematic}/{filename}: two
\* records with the same title, body, source and capture minute share one.
Bases == {"k1", "k2"}

None == "none"

\* the value of a key field that is not set (Python None)
NoKey == <<"none", "none", "base", 0>>

Min(S) == CHOOSE x \in S : \A y \in S : x <= y

\* ------------------------------------------------------------------------
\* State
\* ------------------------------------------------------------------------

VARIABLES
    \* --- object store (S3 bucket): key -> object
    storage,
    \* wall clock, in seconds
    now,
    \* failures injected so far
    faults,
    \* --- S3ContentUploader.upload_batch, one activation per writer process
    upc,        \* position of each writer in upload_batch
    ubatch,     \* batch.content_items of each writer (records, mutated on upload)
    ui,         \* index of the item being uploaded (enumerate, 1-based)
    ukey,       \* s3_key local of _upload_content_item between head and put
    ures,       \* upload_results
    \* --- EnhancedFetcher, one instance; batch_fetch runs one task per URL
    clock,              \* time.time(), in ticks
    last_request_time,  \* EnhancedFetcher.last_request_time
    max_concurrent,     \* batch_fetch's semaphore size
    furls,              \* the urls argument of batch_fetch: 1..furls
    fpc,                \* position of each task
    fstrat,             \* index of the strategy a task is at (1..4)
    fwake,              \* when the task's asyncio.sleep is due
    fresp,              \* what the task's latest strategy call produced
    fres,               \* what the task's coroutine ended with
    forder,             \* the tasks in the order they ended
    bres,               \* the list batch_fetch returned
    \* --- EnhancedContentExtractor.extract_content, one call
    epc,                \* position in extract_content
    ehtml,              \* len(html) of the page given to it
    eout,               \* what each strategy makes of the page
    ek,                 \* index of the strategy the loop is at
    best_result,        \* extract_content's local best_result
    best_confidence,    \* extract_content's local best_confidence, in tenths
    invoked,            \* the strategies called so far, in call order
    eres,               \* what extract_content returned
    \* --- ContentValidator.validate_scraped_content, one record at a time
    vpc,                \* position: called, returned, raised
    vrec,               \* the record being validated
    vcond,              \* the hard-error condition added to the record, if any
    vres,               \* what validate_scraped_content ended with
    vprev,              \* what it returned before the condition was added
    \* --- one run of a driver: scrape_articles or _process_source
    sdriver,            \* which of the two
    sconfig,            \* the configuration of the run
    spc,                \* position in the driver
    surls,              \* len(urls_to_process)
    sres,               \* what gather holds for each URL
    scraped_items,      \* scraped_items / scraped_content
    validated_items,    \* validated_items / validated_content
    sbatch,             \* batch.content_items of the ScrapingBatch made
    sgate,              \* what pre_processing_safety_check ended with
    sret,               \* how the driver ended
    sdone,              \* the URLs whose task has ended, in the order they ended
    ssource,            \* batch.source of the ScrapingBatch made
    stats,              \* BaseArticleScraper.stats, the counters
    sruns,              \* the runs of scrape_articles started on the instance
    \* --- validate_batch and pre_processing_safety_check, one call each
    gpc,                \* position: called, returned, raised
    gitems,             \* batch.content_items of the batch given to them
    gbatch,             \* what validate_batch ended with
    gcheck,             \* what pre_processing_safety_check ended with
    \* --- one ScrapedContent record
    rpc,                \* position: new, made
    content,            \* ScrapedContent.content, the body text
    word_count,         \* ScrapedContent.word_count
    content_hash,       \* ScrapedContent.content_hash
    \* --- S3ContentUploader._extract_artist_name, one call
    apc,                \* position: called, returned
    atitle,             \* what the title patterns capture, if one matches
    abody,              \* what the content patterns capture, if one matches
    asource,            \* source_attribution.source, if there is an attribution
    alabel,             \* what _extract_artist_name returned
    \* --- ScraperOrchestrator.lambda_handler, one invocation
    lpc,                \* position in lambda_handler
    levent,             \* the event, merged with the defaults
    lenv,               \* thresholds from the environment, and what the APIs answer
    lk,                 \* index of the check or of the scraper the loop is at
    lresults,           \* ScraperOrchestrator.results
    safety_passed,      \* lambda_handler's local safety_passed
    validation_passed,  \* lambda_handler's local validation_passed
    lphases,            \* the phases entered so far, in order
    lresp               \* the response returned

uploadVars == <<upc, ubatch, ui, ukey, ures>>
envVars == <<storage, now, faults>>
fetchVars == <<clock, last_request_time, max_concurrent, furls, fpc, fstrat,
               fwake, fresp, fres, forder, bres>>
scrapeVars == <<sdriver, sconfig, spc, surls, sres, scraped_items,
                validated_items, sbatch, sgate, sret, sdone, ssource, stats, sruns>>
validateVars == <<vpc, vrec, vcond, vres, vprev>>
extractVars == <<epc, ehtml, eout, ek, best_result, best_confidence, invoked, eres>>
gateVars == <<gpc, gitems, gbatch, gcheck>>
recordVars == <<rpc, content, word_count, content_hash>>
artistVars == <<apc, atitle, abody, asource, alabel>>
lambdaVars == <<lpc, levent, lenv, lk, lresults, safety_passed, validation_passed,
                lphases, lresp>>
vars == <<storage, now, faults, upc, ubatch, ui, ukey, ures,
          clock, last_request_time, max_concurrent, furls, fpc, fstrat,
          fwake, fresp, fres, forder, bres,
          epc, ehtml, eout, ek, best_result, best_confidence, invoked, eres,
          vpc, vrec, vcond, vres, vprev,
          sdriver, sconfig, spc, surls, sres, scraped_items, validated_items,
          sbatch, sgate, sret, sdone, ssource, stats, sruns,
          gpc, gitems, gbatch, gcheck,
          rpc, content, word_count, content_hash,
          apc, atitle, abody, asource, alabel,
          lpc, levent, lenv, lk, lresults, safety_passed, validation_passed,
          lphases, lresp>>

\* what the uploader's steps leave alone
notUpload == <<fetchVars, extractVars, validateVars, scrapeVars, gateVars, recordVars,
               artistVars, lambdaVars>>
\* what the fetcher's steps leave alone
notFetch == <<envVars, uploadVars, extractVars, validateVars, scrapeVars, gateVars, recordVars,
               artistVars, lambdaVars>>
\* what the extractor's steps leave alone
notExtract == <<envVars, uploadVars, fetchVars, validateVars, scrapeVars, gateVars, recordVars,
               artistVars, lambdaVars>>
\* what the validator's steps leave alone
notValidate == <<envVars, uploadVars, fetchVars, extractVars, scrapeVars, gateVars, recordVars,
               artistVars, lambdaVars>>
\* what the batch checks leave alone
notGate == <<envVars, uploadVars, fetchVars, extractVars, validateVars, scrapeVars, recordVars,
               artistVars, lambdaVars>>
\* what the steps of a record leave alone
notRecord == <<envVars, uploadVars, fetchVars, extractVars, validateVars, scrapeVars, gateVars,
               artistVars, lambdaVars>>
\* what the steps of _extract_artist_name leave alone
notArtist == <<envVars, uploadVars, fetchVars, extractVars, validateVars, scrapeVars,
               gateVars, recordVars, lambdaVars>>
\* what the steps of lambda_handler leave alone
notLambda == <<envVars, uploadVars, fetchVars, extractVars, validateVars, scrapeVars,
               gateVars, recordVars, artistVars>>
\* what the drivers' own steps leave alone
notScrape == <<fetchVars, extractVars, validateVars, gateVars, recordVars,
               artistVars, lambdaVars>>

\* ------------------------------------------------------------------------
\* Storage keys and objects
\* ------------------------------------------------------------------------

\* s3_uploader.py:132  scraped-content/{artist}/{thematic}/{filename}
BaseKey(b) == <<"content", b, "base", 0>>
\* s3_uploader.py:268  {base_name}_{counter:03d}.{extension}
NumKey(b, c) == <<"content", b, "num", c>>
\* s3_uploader.py:274-275  {base_name}_{%Y%m%d_%H%M%S}.{extension}
TsKey(b, t) == <<"content", b, "ts", t>>
\* models.py:92  scraped-content/{source}/{date}/content-{hash}.json
CtorKey(b) == <<"ctor", b, "base", 0>>
\* s3_uploader.py:300  manifests/scraped/{source}/{date}/batch_{batch_id}.json
ManifestKey(w) == <<"manifest", "batch", "base", w>>

KeyName(k) == k[2]

\* An object written by an earlier run.
ForeignObject ==
    [kind |-> "record", id |-> 0, s3_key |-> NoKey,
     content_s3_keys |-> <<>>, uploaded_s3_keys |-> <<>>]

\* (mutant) a put that leaves an object that is there alone
PutObjectIfAbsent(store, key, obj) ==
    [k \in (DOMAIN store) \cup {key} |-> IF k \in DOMAIN store THEN store[k] ELSE obj]

\* s3_client.put_object: the object at `key` is created or replaced.
PutObject(store, key, obj) ==
    [k \in (DOMAIN store) \cup {key} |-> IF k = key THEN obj ELSE store[k]]

\* s3_client.head_object succeeded
KeyExists(store, key) == key \in DOMAIN store

\* ------------------------------------------------------------------------
\* S3ContentUploader (shared/s3_uploader.py)
\* ------------------------------------------------------------------------

Writers == {1, 2}

\* A record of a batch: `base` names the key _upload_content_item derives
\* for it, `s3_key` is the field set by ScrapedContent.__post_init__.
Record(i, b) == [id |-> i, base |-> b, s3_key |-> CtorKey(b)]

\* (mutant) any free numbered variant will do: the highest is taken
GenerateUniqueKeyHighest(store, base_key, t) ==
    LET base_name == KeyName(base_key)
        free == {c \in 1..(CounterLimit - 1) :
                    ~KeyExists(store, NumKey(base_name, c))}
    IN  IF free # {} THEN NumKey(base_name, CHOOSE c \in free : \A d \in free : d <= c)
                     ELSE TsKey(base_name, t)

\* _generate_unique_key: the first free numbered variant, else the
\* timestamp-qualified key, returned without an existence check.
GenerateUniqueKey(store, base_key, t) ==
    LET base_name == KeyName(base_key)
        free == {c \in 1..(CounterLimit - 1) :
                    ~KeyExists(store, NumKey(base_name, c))}
    IN  IF free # {} THEN NumKey(base_name, Min(free))
                     ELSE TsKey(base_name, t)

\* _upload_content_item, lines 124-138: the key the item will be put at.
ChooseKey(store, item, t) ==
    LET s3_key == BaseKey(item.base)
    IN  IF KeyExists(store, s3_key)
        THEN GenerateUniqueKey(store, s3_key, t)
        ELSE s3_key

\* content.to_v3_format() taken at line 141, before line 166 updates s3_key.
RecordObject(item) ==
    [kind |-> "record", id |-> item.id, s3_key |-> item.s3_key,
     content_s3_keys |-> <<>>, uploaded_s3_keys |-> <<>>]

\* _upload_batch_manifest, lines 281-295: batch.to_manifest() plus the
\* upload_results block.
ManifestObject(w, items, res) ==
    [kind |-> "manifest", id |-> w, s3_key |-> NoKey,
     content_s3_keys |-> [i \in 1..Len(items) |-> items[i].s3_key],
     uploaded_s3_keys |-> res.uploaded_keys]

\* upload_batch, lines 83-91
NewUploadResults ==
    [successful_uploads |-> 0, failed_uploads |-> 0, uploaded_keys |-> <<>>,
     errors |-> <<>>, manifest_key |-> NoKey]

\* upload_batch, line 81: _get_s3_client either connects or raises
\* (NoCredentialsError, ClientError), and the exception leaves upload_batch.
UploadBegin(w) ==
    /\ upc[w] = "called"
    /\ \/ /\ upc' = [upc EXCEPT ![w] = "items"]
          /\ ui' = [ui EXCEPT ![w] = 1]
          /\ ures' = [ures EXCEPT ![w] = NewUploadResults]
          /\ UNCHANGED faults
       \/ /\ faults < MaxFaults
          /\ faults' = faults + 1
          /\ upc' = [upc EXCEPT ![w] = "raised"]
          /\ UNCHANGED <<ui, ures>>
    /\ UNCHANGED <<storage, now, ubatch, ukey, notUpload>>

\* _upload_content_item, lines 124-138: derive the key and look it up. A
\* head_object error other than 404 is raised by _key_exists and caught by
\* upload_batch (lines 104-107).
UploadItemHead(w) ==
    /\ upc[w] = "items"
    /\ ui[w] <= Len(ubatch[w])
    /\ \/ /\ ukey' = [ukey EXCEPT ![w] = ChooseKey(storage, ubatch[w][ui[w]], now)]
          /\ upc' = [upc EXCEPT ![w] = "put"]
          /\ UNCHANGED <<ui, ures, faults>>
       \/ /\ faults < MaxFaults
          /\ faults' = faults + 1
          /\ ures' = [ures EXCEPT
                ![w].failed_uploads = @ + 1,
                ![w].errors = Append(@, <<"Item", ui[w]>>)]
          /\ ui' = [ui EXCEPT ![w] = @ + 1]
          /\ UNCHANGED <<upc, ukey>>
    /\ UNCHANGED <<storage, now, ubatch, notUpload>>

\* _upload_content_item, lines 140-172: put_object, then the record takes
\* the final key; a failed put returns None (upload_batch lines 97-102).
UploadItemPut(w) ==
    /\ upc[w] = "put"
    /\ \/ /\ storage' = PutObject(storage, ukey[w], RecordObject(ubatch[w][ui[w]]))
          /\ ubatch' = [ubatch EXCEPT ![w][ui[w]].s3_key = ukey[w]]
          /\ ures' = [ures EXCEPT
                ![w].successful_uploads = @ + 1,
                ![w].uploaded_keys = Append(@, ukey[w])]
          /\ UNCHANGED faults
       \/ /\ faults < MaxFaults
          /\ faults' = faults + 1
          /\ ures' = [ures EXCEPT ![w].failed_uploads = @ + 1]
          /\ UNCHANGED <<storage, ubatch>>
    /\ upc' = [upc EXCEPT ![w] = "items"]
    /\ ui' = [ui EXCEPT ![w] = @ + 1]
    /\ ukey' = [ukey EXCEPT ![w] = NoKey]
    /\ UNCHANGED <<now, notUpload>>

\* upload_batch, lines 109-119: the manifest is put once the loop is over.
UploadManifest(w) ==
    /\ upc[w] = "items"
    /\ ui[w] > Len(ubatch[w])
    /\ \/ /\ storage' = PutObject(storage, ManifestKey(w),
                                  ManifestObject(w, ubatch[w], ures[w]))
          /\ ures' = [ures EXCEPT ![w].manifest_key = ManifestKey(w)]
          /\ UNCHANGED faults
       \/ /\ faults < MaxFaults
          /\ faults' = faults + 1
          /\ ures' = [ures EXCEPT ![w].errors = Append(@, <<"Manifest", 0>>)]
          /\ UNCHANGED storage
    /\ upc' = [upc EXCEPT ![w] = "returned"]
    /\ UNCHANGED <<now, ubatch, ui, ukey, notUpload>>

\* A second of wall-clock time passes.
Tick ==
    /\ now < MaxClock
    /\ now' = now + 1
    /\ UNCHANGED <<storage, faults, uploadVars, notUpload>>

\* ------------------------------------------------------------------------
\* EnhancedFetcher (shared/fetcher.py)
\* ------------------------------------------------------------------------

\* fetcher.py:86  len(result.content) > 500
MinFetchLength == 500
\* fetcher.py:272  max_concurrent: int = 5
DefaultMaxConcurrent == 5
\* min_interval = 1.0 / rate_limit (fetcher.py:265), in clock ticks;
\* rate_limit > 0 throughout.
MinInterval == 1
\* Ticks the clock runs on after the fetcher was made.
MaxTicks == 3
\* Longest urls list given to batch_fetch.
MaxUrls == 2

\* fetch_with_fallbacks, lines 76-81
Strategies == <<"direct", "archive_ph", "archive_org", "google_cache">>

FetchResult(url, success, len, method, error) ==
    [kind |-> "result", url |-> url, success |-> success, len |-> len,
     method |-> method, error |-> error]

\* an exception instead of a FetchResult
FetchException(url, from) ==
    [kind |-> "exception", url |-> url, success |-> FALSE, len |-> 0,
     method |-> from, error |-> "exception"]

NoFetchResult ==
    [kind |-> "none", url |-> 0, success |-> FALSE, len |-> 0,
     method |-> "none", error |-> "none"]

\* What one strategy call may produce for a URL: an exception, a failed
\* result (content None), or a 200 with content at either side of the
\* minimum length.
StrategyOutcomes(url, k) ==
    { FetchException(url, Strategies[k]),
      FetchResult(url, FALSE, 0, Strategies[k], "failed") }
    \cup { FetchResult(url, TRUE, n, Strategies[k], None) :
            n \in {MinFetchLength, MinFetchLength + 1} }

\* fetch_with_fallbacks, line 86
Accepted(r) == r.success /\ r.len > 0 /\ r.len > MinFetchLength

\* fetch_with_fallbacks, lines 95-100
AllStrategiesFailed(url) ==
    FetchResult(url, FALSE, 0, "none", "All fetch strategies failed")

\* (mutant) content of exactly the minimum length is accepted
CascadeStepAtLeast(url, k, r) ==
    IF r.kind = "result" /\ r.success /\ r.len >= MinFetchLength
    THEN [next |-> "return", result |-> r]
    ELSE IF k < Len(Strategies)
         THEN [next |-> "continue", result |-> NoFetchResult]
         ELSE [next |-> "return", result |-> AllStrategiesFailed(url)]

\* (mutant) an exception of a strategy is not caught
CascadeStepUncaught(url, k, r) ==
    IF r.kind = "exception" \/ Accepted(r)
    THEN [next |-> "return", result |-> r]
    ELSE IF k < Len(Strategies)
         THEN [next |-> "continue", result |-> NoFetchResult]
         ELSE [next |-> "return", result |-> AllStrategiesFailed(url)]

\* fetch_with_fallbacks, lines 83-100: what the loop does with the outcome r
\* of strategy k: return it, go on to the next strategy, or give up.
CascadeStep(url, k, r) ==
    IF r.kind = "result" /\ Accepted(r)
    THEN [next |-> "return", result |-> r]
    ELSE IF k < Len(Strategies)
         THEN [next |-> "continue", result |-> NoFetchResult]
         ELSE [next |-> "return", result |-> AllStrategiesFailed(url)]

Tasks == 1..furls

\* tasks holding batch_fetch's semaphore
Holding == {t \in Tasks : fpc[t] \in {"throttle", "sleeping", "request", "decide"}}

Ended(t) == fpc[t] \in {"done", "raised"}

\* fetch_with_semaphore, lines 276-278: the tasks take the semaphore in list
\* order and enter fetch_with_fallbacks at its first strategy.
FetchBegin(t) ==
    /\ fpc[t] = "queued"
    /\ \A s \in Tasks : s < t => fpc[s] # "queued"
    /\ Cardinality(Holding) < max_concurrent
    /\ fpc' = [fpc EXCEPT ![t] = "throttle"]
    /\ fstrat' = [fstrat EXCEPT ![t] = 1]
    /\ UNCHANGED <<clock, last_request_time, max_concurrent, furls, fwake,
                   fresp, fres, forder, bres, notFetch>>

\* The coroutine of a task ends with an exception before it fetches;
\* gather(return_exceptions=True) keeps the exception as the task's result.
TaskFault(t) ==
    /\ fpc[t] = "queued"
    /\ \A s \in Tasks : s < t => fpc[s] # "queued"
    /\ faults < MaxFaults
    /\ faults' = faults + 1
    /\ fpc' = [fpc EXCEPT ![t] = "raised"]
    /\ fres' = [fres EXCEPT ![t] = FetchException(t, "task")]
    /\ forder' = Append(forder, t)
    /\ UNCHANGED <<clock, last_request_time, max_concurrent, furls, fstrat,
                   fwake, fresp, bres, storage, now, uploadVars, extractVars,
                   validateVars, scrapeVars, gateVars, recordVars,
                   artistVars, lambdaVars>>

\* _respect_rate_limit, lines 263-270, up to its await: either the interval
\* has passed, last_request_time is set and the strategy's request goes out,
\* or the task sleeps for the rest of the interval.
FetchThrottle(t) ==
    /\ fpc[t] = "throttle"
    /\ LET time_since_last == clock - last_request_time
       IN  IF time_since_last < MinInterval
           THEN /\ fpc' = [fpc EXCEPT ![t] = "sleeping"]
                /\ fwake' = [fwake EXCEPT ![t] = clock + (MinInterval - time_since_last)]
                /\ UNCHANGED last_request_time
           ELSE /\ fpc' = [fpc EXCEPT ![t] = "request"]
                /\ last_request_time' = clock
                /\ UNCHANGED fwake
    /\ UNCHANGED <<clock, max_concurrent, furls, fstrat, fresp, fres, forder,
                   bres, notFetch>>

\* _respect_rate_limit, lines 268-270, after the await: the sleep is over,
\* last_request_time is set and the strategy's request goes out.
FetchWake(t) ==
    /\ fpc[t] = "sleeping"
    /\ clock >= fwake[t]
    /\ fpc' = [fpc EXCEPT ![t] = "request"]
    /\ fwake' = [fwake EXCEPT ![t] = 0]
    /\ last_request_time' = clock
    /\ UNCHANGED <<clock, max_concurrent, furls, fstrat, fresp, fres,
                   forder, bres, notFetch>>

\* The strategy's call ends (line 85): it returned a FetchResult or raised.
FetchResponse(t) ==
    /\ fpc[t] = "request"
    /\ \E r \in StrategyOutcomes(t, fstrat[t]) :
        fresp' = [fresp EXCEPT ![t] = r]
    /\ fpc' = [fpc EXCEPT ![t] = "decide"]
    /\ UNCHANGED <<clock, last_request_time, max_concurrent, furls, fstrat,
                   fwake, fres, forder, bres, notFetch>>

\* fetch_with_fallbacks, lines 86-100: the loop returns the outcome, goes on
\* to the next strategy, or gives up after the last one.
FetchDecide(t) ==
    /\ fpc[t] = "decide"
    /\ LET step == CascadeStep(t, fstrat[t], fresp[t])
       IN  IF step.next = "continue"
           THEN /\ fstrat' = [fstrat EXCEPT ![t] = @ + 1]
                /\ fpc' = [fpc EXCEPT ![t] = "throttle"]
                /\ UNCHANGED <<fres, forder>>
           ELSE /\ fres' = [fres EXCEPT ![t] = step.result]
                /\ fpc' = [fpc EXCEPT ![t] =
                            IF step.result.kind = "exception" THEN "raised" ELSE "done"]
                /\ forder' = Append(forder, t)
                /\ UNCHANGED fstrat
    /\ fresp' = [fresp EXCEPT ![t] = NoFetchResult]
    /\ UNCHANGED <<clock, last_request_time, max_concurrent, furls, fwake,
                   bres, notFetch>>

\* (mutant) the results are listed as the tasks ended
BatchResultsAsCompleted(n, res, order) ==
    [i \in 1..n |->
        IF res[order[i]].kind = "exception"
        THEN FetchResult(i, FALSE, 0, "error", "exception")
        ELSE res[order[i]]]

\* batch_fetch, lines 283-296: gather's list is in the order of urls; an
\* exception becomes a failure result for urls[i].
BatchResults(n, res, order) ==
    [i \in 1..n |->
        IF res[i].kind = "exception"
        THEN FetchResult(i, FALSE, 0, "error", "exception")
        ELSE res[i]]

\* batch_fetch, lines 281-296: every task has ended and the list is returned.
BatchReturn ==
    /\ bres = <<>>
    /\ \A t \in Tasks : Ended(t)
    /\ bres' = BatchResults(furls, fres, forder)
    /\ UNCHANGED <<clock, last_request_time, max_concurrent, furls, fpc,
                   fstrat, fwake, fresp, fres, forder, notFetch>>

\* time.time() advances.
ClockTick ==
    /\ clock < MinInterval + MaxTicks
    /\ clock' = clock + 1
    /\ UNCHANGED <<last_request_time, max_concurrent, furls, fpc, fstrat,
                   fwake, fresp, fres, forder, bres, notFetch>>

\* ------------------------------------------------------------------------
\* EnhancedContentExtractor (shared/extractor.py)
\* ------------------------------------------------------------------------

\* extractor.py:98  len(html) < 100
MinHtmlLength == 100
\* extractor.py:126  result.confidence > 0.8, in tenths
HighConfidence == 8

\* extract_content, lines 108-113
ExtractStrategies == <<"structured_data", "semantic", "generic", "fallback">>
\* the confidence of a successful result of each strategy, in tenths
\* (extractor.py:175, 201, 236, 266)
StrategyConfidence == <<9, 8, 6, 3>>

\* what a strategy makes of a page: it raises, it returns a failed result
\* or it returns a successful one
ExtractOutcomes == {"raise", "fail", "ok"}

ExtractionResult(success, confidence, method, errors) ==
    [kind |-> "result", success |-> success, confidence |-> confidence,
     method |-> method, errors |-> errors]

\* best_result = None
NoExtraction ==
    [kind |-> "none", success |-> FALSE, confidence |-> 0,
     method |-> "none", errors |-> <<>>]

\* The ExtractionResult strategy k returns when it does not raise: success
\* with the strategy's confidence, or success=False with the default
\* confidence 0.0.
StrategyResult(k, o) ==
    IF o = "ok"
    THEN ExtractionResult(TRUE, StrategyConfidence[k], ExtractStrategies[k], <<>>)
    ELSE ExtractionResult(FALSE, 0, ExtractStrategies[k], <<>>)

\* (mutant) the loop never breaks
LoopStepNoBreak(best, conf, k, o) ==
    IF o = "raise"
    THEN [best_result |-> best, best_confidence |-> conf, stop |-> FALSE]
    ELSE LET result == StrategyResult(k, o)
             better == result.success /\ result.confidence > conf
         IN  [best_result |-> IF better THEN result ELSE best,
              best_confidence |-> IF better THEN result.confidence ELSE conf,
              stop |-> FALSE]

\* (mutant) every successful result replaces the best one
LoopStepLatest(best, conf, k, o) ==
    IF o = "raise"
    THEN [best_result |-> best, best_confidence |-> conf, stop |-> FALSE]
    ELSE LET result == StrategyResult(k, o)
             better == result.success
         IN  [best_result |-> IF better THEN result ELSE best,
              best_confidence |-> IF better THEN result.confidence ELSE conf,
              stop |-> result.confidence > HighConfidence]

\* extract_content, lines 118-130: one pass of the loop body for strategy k
\* with outcome o. An exception is logged and the loop goes on.
LoopStep(best, conf, k, o) ==
    IF o = "raise"
    THEN [best_result |-> best, best_confidence |-> conf, stop |-> FALSE]
    ELSE LET result == StrategyResult(k, o)
             better == result.success /\ result.confidence > conf
         IN  [best_result |-> IF better THEN result ELSE best,
              best_confidence |-> IF better THEN result.confidence ELSE conf,
              stop |-> result.confidence > HighConfidence]

\* extract_content, lines 98-116: the guard on the page, then the loop is
\* set up.
ExtractBegin ==
    /\ epc = "called"
    /\ IF ehtml = 0 \/ ehtml < MinHtmlLength
       THEN /\ eres' = ExtractionResult(FALSE, 0, "unknown",
                            <<"HTML content too short or empty">>)
            /\ epc' = "returned"
            /\ UNCHANGED <<ek, best_result, best_confidence>>
       ELSE /\ epc' = "loop"
            /\ ek' = 1
            /\ best_result' = NoExtraction
            /\ best_confidence' = 0
            /\ UNCHANGED eres
    /\ UNCHANGED <<ehtml, eout, invoked, notExtract>>

\* extract_content, lines 118-130: the next strategy is called.
ExtractStrategy ==
    /\ epc = "loop"
    /\ LET step == LoopStep(best_result, best_confidence, ek, eout[ek])
       IN  /\ best_result' = step.best_result
           /\ best_confidence' = step.best_confidence
           /\ invoked' = Append(invoked, ek)
           /\ IF step.stop \/ ek = Len(ExtractStrategies)
              THEN epc' = "exit" /\ UNCHANGED ek
              ELSE ek' = ek + 1 /\ UNCHANGED epc
    /\ UNCHANGED <<ehtml, eout, eres, notExtract>>

\* extract_content, lines 132-135
ExtractReturn ==
    /\ epc = "exit"
    /\ eres' = IF best_result.kind = "none"
               THEN ExtractionResult(FALSE, 0, "unknown",
                        <<"All extraction strategies failed">>)
               ELSE best_result
    /\ epc' = "returned"
    /\ UNCHANGED <<ehtml, eout, ek, best_result, best_confidence, invoked,
                   notExtract>>

\* ------------------------------------------------------------------------
\* ContentValidator (shared/validator.py)
\* ------------------------------------------------------------------------

\* validator.py:51-54
MinContentLength == 200
MaxContentLength == 50000
MinTitleLength == 5
MaxTitleLength == 200

\* Attributes of an input record of the validator that differ from the
\* well-formed record.
MaxDefects == 2

\* validator.py:74-77
ValidSources ==
    {"Billboard", "Rolling Stone", "Pitchfork", "NPR", "Sound Opinions",
     "All Songs Considered", "Fresh Air", "Spotify", "Apple Podcasts"}

\* The attribution source names of the model's records and len() of each;
\* "LongName" stands for a name of 140 characters.
SourceLength ==
    [s \in {"", "Pitchfork", "NPR", "Substack", "LongName"} |->
        CASE s = "" -> 0
          [] s = "Pitchfork" -> 9
          [] s = "NPR" -> 3
          [] s = "Substack" -> 8
          [] s = "LongName" -> 140]

\* A score is a product of factors given in tenths: n / 10^k. Python's
\* floats agree with the exact products on every comparison made here (the
\* only product that equals a threshold is 1.0 * 0.5).
One == [n |-> 1, k |-> 0]
Tenths(t) == [n |-> t, k |-> 1]
Mul(a, b) == [n |-> a.n * b.n, k |-> a.k + b.k]
Scaled(s, cond, t) == IF cond THEN Mul(s, Tenths(t)) ELSE s
\* the score in units of 10^-9
Units(s) == s.n * 10^(9 - s.k)

Opt(cond, e) == IF cond THEN <<e>> ELSE <<>>

\* A ScrapedContent as the validator reads it: which fields are set, the
\* lengths of title and body, and what the text matches. A title of an
\* attribution that has one is 20 characters long.
WellFormed ==
    [id_set |-> TRUE, url |-> "ok", title_len |-> MinTitleLength,
     body_len |-> MinContentLength, confidence_ok |-> TRUE,
     attribution |-> TRUE, source |-> "Pitchfork", attr_title |-> TRUE,
     attr_url |-> "ok", date |-> "ok",
     patterns |-> 0, repetitive |-> FALSE, low_text |-> FALSE,
     music |-> 3, json_ok |-> TRUE]

\* A record without attribution has no attribution fields; an empty body
\* matches nothing.
Normalised(c) ==
    LET a == IF c.attribution THEN c
             ELSE [c EXCEPT !.source = "", !.attr_title = FALSE,
                            !.attr_url = "none", !.date = "none"]
    IN  IF a.body_len > 0 THEN a
        ELSE [a EXCEPT !.patterns = 0, !.repetitive = FALSE, !.low_text = FALSE]

\* the records that differ from c in one attribute
Variants(c) ==
    {[c EXCEPT !.id_set = FALSE], [c EXCEPT !.confidence_ok = FALSE],
     [c EXCEPT !.attribution = FALSE], [c EXCEPT !.attr_title = FALSE],
     [c EXCEPT !.repetitive = TRUE], [c EXCEPT !.low_text = TRUE],
     [c EXCEPT !.json_ok = FALSE]}
    \cup {[c EXCEPT !.url = v] : v \in {"none", "bad"}}
    \cup {[c EXCEPT !.title_len = v] :
            v \in {0, MinTitleLength - 1, MaxTitleLength, MaxTitleLength + 1}}
    \cup {[c EXCEPT !.body_len = v] :
            v \in {0, MinContentLength - 1, MaxContentLength, MaxContentLength + 1}}
    \cup {[c EXCEPT !.source = v] : v \in {"", "Substack", "LongName"}}
    \cup {[c EXCEPT !.attr_url = v] : v \in {"none", "bad"}}
    \cup {[c EXCEPT !.date = v] : v \in {"none", "bad"}}
    \cup {[c EXCEPT !.patterns = v] : v \in {1, 2}}
    \cup {[c EXCEPT !.music = v] : v \in {0, 1}}

RECURSIVE Defective(_)
Defective(n) ==
    IF n = 0 THEN {WellFormed}
    ELSE LET S == Defective(n - 1)
         IN  S \cup UNION {Variants(c) : c \in S}

InputRecords == {Normalised(c) : c \in Defective(MaxDefects)}

ValidationResult(passed, score, errors, warnings) ==
    [kind |-> "result", passed |-> passed, score |-> score,
     errors |-> errors, warnings |-> warnings, quality_score |-> One]

NoValidation ==
    [kind |-> "none", passed |-> FALSE, score |-> One,
     errors |-> <<>>, warnings |-> <<>>, quality_score |-> One]

\* an exception instead of a ValidationResult
ValidationException(e) ==
    [kind |-> "exception", passed |-> FALSE, score |-> One,
     errors |-> <<e>>, warnings |-> <<>>, quality_score |-> One]

\* SourceAttribution.to_citation_format (models.py:47-53): len() of
\* [Source: "{source}", "{title}"] where the title is left out when empty.
CitationLength(c) ==
    12 + SourceLength[c.source] + (IF c.attr_title THEN 24 ELSE 0)

\* _validate_structure, lines 181-212, for a record with an attribution
\* (to_v3_format at line 187 raises without one).
ValidateStructure(c) ==
    LET errors ==
            Opt(~c.id_set, "Missing required field: id")
            \o Opt(c.url = "none", "Missing required field: url")
            \o Opt(c.title_len = 0, "Missing required field: title")
            \o Opt(c.body_len = 0, "Missing required field: content")
            \o Opt(c.attribution /\ c.source = "", "Missing source attribution field: source")
            \o Opt(c.attribution /\ ~c.attr_title, "Missing source attribution field: title")
            \o Opt(c.attribution /\ c.attr_url = "none", "Missing source attribution field: url")
            \o Opt(~c.confidence_ok, "Confidence score must be between 0.0 and 1.0")
            \o Opt(c.url = "bad", "Invalid URL format")
    IN  ValidationResult(errors = <<>>, IF errors = <<>> THEN One ELSE Tenths(0),
                         errors, <<>>)

\* _validate_content_quality, lines 236-242: the loop over the suspicious
\* patterns breaks at the first match.
PatternFactor(matches) ==
    IF matches > 0 THEN Tenths(2) ELSE One

\* _validate_content_quality, lines 214-263, for a record with a non-empty
\* body (line 253 divides by len(content.content)).
ValidateContentQuality(c) ==
    LET short == c.body_len < MinContentLength
        long == c.body_len > MaxContentLength
        title_short == c.title_len < MinTitleLength
        title_long == c.title_len > MaxTitleLength
        errors ==
            Opt(short, "Content too short")
            \o Opt(title_short, "Title too short")
            \o Opt(c.patterns > 0, "Suspicious content pattern detected")
        warnings ==
            Opt(long, "Content very long")
            \o Opt(title_long, "Title very long")
            \o Opt(c.repetitive, "Content appears repetitive")
            \o Opt(c.low_text, "Low text content ratio")
        s1 == Scaled(One, short, 3)
        s2 == Scaled(s1, long, 9)
        s3 == Scaled(s2, title_short, 5)
        s4 == Scaled(s3, title_long, 9)
        s5 == Mul(s4, PatternFactor(c.patterns))
        s6 == Scaled(s5, c.repetitive, 8)
        s7 == Scaled(s6, c.low_text, 9)
    IN  ValidationResult(errors = <<>>, s7, errors, warnings)

\* _validate_source_attribution, lines 265-313
ValidateSourceAttribution(c) ==
    IF ~c.attribution
    THEN ValidationResult(FALSE, Tenths(0), <<"Missing source attribution">>, <<>>)
    ELSE LET unknown == c.source \notin ValidSources
             very_long == CitationLength(c) > 150
             errors ==
                Opt(CitationLength(c) < 10, "Citation format too short")
                \o Opt(c.attr_url = "bad", "Invalid attribution URL")
             warnings ==
                Opt(unknown, "Unknown source")
                \o Opt(very_long, "Citation format very long")
                \o Opt(c.date = "bad", "Invalid publication date format")
             s1 == Scaled(One, unknown, 9)
             s2 == Scaled(s1, very_long, 9)
             s3 == Scaled(s2, c.date = "bad", 9)
         IN  ValidationResult(errors = <<>>, s3, errors, warnings)

\* _validate_music_relevance, lines 315-342
ValidateMusicRelevance(c) ==
    IF c.music = 0
    THEN ValidationResult(TRUE, Tenths(5), <<>>, <<"No music-related keywords found">>)
    ELSE IF c.music < 3
         THEN ValidationResult(TRUE, Tenths(8), <<>>, <<"Limited music relevance">>)
         ELSE ValidationResult(TRUE, One, <<>>, <<>>)

\* _validate_data_lake_compatibility, lines 344-393: compatible unless the
\* serialisation raises.
ValidateDataLakeCompatibility(c) ==
    LET compatible == c.attribution /\ c.json_ok
    IN  ValidationResult(compatible, One,
                         Opt(~compatible, "Data lake compatibility test failed"), <<>>)

\* (mutant) the score alone decides
CompositeByScore(structure_result, quality_result, attribution_result, relevance_result, compatibility_result) ==
    LET s1 == Scaled(One, ~structure_result.passed, 3)
        s2 == Mul(s1, quality_result.score)
        s3 == Mul(s2, attribution_result.score)
        s4 == Mul(s3, relevance_result.score)
        score == Scaled(s4, ~compatibility_result.passed, 2)
    IN  [kind |-> "result",
         passed |-> Units(score) > Units(Tenths(5)),
         score |-> score,
         errors |-> structure_result.errors \o quality_result.errors
                        \o attribution_result.errors \o compatibility_result.errors,
         warnings |-> quality_result.warnings \o relevance_result.warnings,
         quality_score |-> quality_result.score]

\* validate_scraped_content, lines 83-129: the score is the product of the
\* sub-scores and of the penalties 0.3 and 0.2, the errors are those of the
\* sub-checks, and passed = (len(errors) == 0 and score > 0.5).
Composite(structure_result, quality_result, attribution_result, relevance_result, compatibility_result) ==
    LET s1 == Scaled(One, ~structure_result.passed, 3)
        s2 == Mul(s1, quality_result.score)
        s3 == Mul(s2, attribution_result.score)
        s4 == Mul(s3, relevance_result.score)
        score == Scaled(s4, ~compatibility_result.passed, 2)
    IN  [kind |-> "result",
         passed |->
            /\ Len(structure_result.errors) + Len(quality_result.errors)
                + Len(attribution_result.errors) + Len(compatibility_result.errors) = 0
            /\ Units(score) > Units(Tenths(5)),
         score |-> score,
         errors |-> structure_result.errors \o quality_result.errors
                        \o attribution_result.errors \o compatibility_result.errors,
         warnings |-> quality_result.warnings \o relevance_result.warnings,
         quality_score |-> quality_result.score]

\* validate_scraped_content, lines 79-129. Without an attribution
\* to_v3_format (models.py:103, called at validator.py:187) raises
\* AttributeError; with an empty body validator.py:253 raises
\* ZeroDivisionError.
ValidateScrapedContent(c) ==
    IF ~c.attribution THEN ValidationException("AttributeError")
    ELSE IF c.body_len = 0 THEN ValidationException("ZeroDivisionError")
    ELSE Composite(ValidateStructure(c), ValidateContentQuality(c),
                   ValidateSourceAttribution(c), ValidateMusicRelevance(c),
                   ValidateDataLakeCompatibility(c))

\* The hard-error conditions a record may acquire.
HardErrorConditions ==
    {"no_attribution", "no_id", "bad_url", "empty_title", "short_title",
     "empty_body", "short_body", "signature", "unserializable"}

WithCondition(c, cond) ==
    Normalised(
        CASE cond = "no_attribution" -> [c EXCEPT !.attribution = FALSE]
          [] cond = "no_id" -> [c EXCEPT !.id_set = FALSE]
          [] cond = "bad_url" -> [c EXCEPT !.url = "bad"]
          [] cond = "empty_title" -> [c EXCEPT !.title_len = 0]
          [] cond = "short_title" -> [c EXCEPT !.title_len = MinTitleLength - 1]
          [] cond = "empty_body" -> [c EXCEPT !.body_len = 0]
          [] cond = "short_body" -> [c EXCEPT !.body_len = MinContentLength - 1]
          [] cond = "signature" -> [c EXCEPT !.patterns = 1]
          [] cond = "unserializable" -> [c EXCEPT !.json_ok = FALSE])

\* validate_scraped_content is called on the record.
ValidateRecord ==
    /\ vpc = "called"
    /\ vres' = ValidateScrapedContent(vrec)
    /\ vpc' = IF vres'.kind = "exception" THEN "raised" ELSE "returned"
    /\ UNCHANGED <<vrec, vcond, vprev, notValidate>>

\* A record that passed comes back with one hard-error condition added.
AddCondition ==
    /\ vpc = "returned"
    /\ vcond = "none"
    /\ vres.passed
    /\ \E cond \in HardErrorConditions :
        /\ vcond' = cond
        /\ vrec' = WithCondition(vrec, cond)
    /\ vprev' = vres
    /\ vres' = NoValidation
    /\ vpc' = "called"
    /\ UNCHANGED notValidate

\* ------------------------------------------------------------------------
\* SafetyChecker and batch validation (shared/validator.py)
\* ------------------------------------------------------------------------

\* validator.py:419  len(batch.content_items) > 100
BatchSizeCap == 100

\* A record of a batch: what the validator reads of it, and what the
\* uploader reads of it (its id, the key derived for it, its s3_key field).
Item(c, b, i) == c @@ [id |-> i, base |-> b, s3_key |-> CtorKey(b)]

\* a score in units of 10^-4 (a product of at most four factors)
Units4(s) == s.n * 10^(4 - s.k)

\* the sum of f[i] over the domain of f: the cardinality of the bag that
\* holds each i with f[i] > 0 f[i] times
Sum(f) ==
    BagCardinality([i \in {j \in DOMAIN f : f[j] > 0} |-> f[i]])

\* sum(item_scores)
ScoreSum(results) ==
    Sum([i \in 1..Len(results) |-> Units4(results[i].score)])

\* the errors of the items that did not pass, each with the index of its
\* item, in the order of the items
ItemErrors(results) ==
    LET count == [i \in 1..Len(results) |->
                    IF results[i].passed THEN 0 ELSE Len(results[i].errors)]
        before(i) == Sum([j \in 1..(i - 1) |-> count[j]])
    IN  [p \in 1..Sum(count) |->
            LET i == CHOOSE j \in 1..Len(results) :
                        before(j) < p /\ p <= before(j) + count[j]
            IN  <<i, results[i].errors[p - before(i)]>>]

\* a quotient of two integers
Ratio(num, den) == [num |-> num, den |-> den]

BatchResult(passed, score, errors) ==
    [kind |-> "result", passed |-> passed, score |-> score, errors |-> errors]

NoBatchResult ==
    [kind |-> "none", passed |-> FALSE, score |-> Ratio(0, 1), errors |-> <<>>]

\* an exception instead of the ValidationResult of the batch
BatchException ==
    [kind |-> "exception", passed |-> FALSE, score |-> Ratio(0, 1), errors |-> <<>>]

\* validate_batch, lines 138-179, given what validate_scraped_content made
\* of each item; an exception of validate_scraped_content leaves it.
BatchVerdict(results) ==
    LET n == Len(results)
        total_errors == Cardinality({i \in 1..n : ~results[i].passed})
    IN  IF n = 0
        THEN BatchResult(FALSE, Ratio(0, 1),
                         << <<0, "Batch contains no content items">> >>)
        ELSE IF \E i \in 1..n : results[i].kind = "exception"
        THEN BatchException
        ELSE
            LET errors ==
                    ItemErrors(results)
                    \* success_rate < 0.7
                    \o Opt(10 * (n - total_errors) < 7 * n,
                           <<0, "Batch success rate too low">>)
                    \* avg_score < 0.6
                    \o Opt(ScoreSum(results) < 6000 * n,
                           <<0, "Batch average quality too low">>)
            \* avg_score * success_rate, with the scores in units of 10^-4
            IN  BatchResult(Len(errors) = 0,
                            Ratio(ScoreSum(results) * (n - total_errors), 10000 * n * n),
                            errors)

\* validate_batch, lines 131-179
ValidateBatch(items) ==
    BatchVerdict([i \in 1..Len(items) |-> ValidateScrapedContent(items[i])])

SafetyResult(safe, errors) == [kind |-> "result", safe |-> safe, errors |-> errors]

NoCheck == [kind |-> "none", safe |-> FALSE, errors |-> <<>>]

\* (mutant) a batch of exactly the cap is too large already
SafetyVerdictAtCap(batch_result, items) ==
    LET sources == {items[i].source : i \in {j \in 1..Len(items) : items[j].attribution}}
        errors ==
            (IF batch_result.passed THEN <<>> ELSE batch_result.errors)
            \o Opt(Len(items) >= BatchSizeCap, <<0, "Batch too large">>)
            \o Opt(Cardinality(sources) > 1, <<0, "Mixed sources in single batch">>)
    IN  IF batch_result.kind = "exception"
        THEN [kind |-> "exception", safe |-> FALSE, errors |-> <<>>]
        ELSE SafetyResult(Len(errors) = 0, errors)

\* pre_processing_safety_check, lines 409-428, given the result of
\* validate_batch
SafetyVerdict(batch_result, items) ==
    LET sources == {items[i].source : i \in {j \in 1..Len(items) : items[j].attribution}}
        errors ==
            (IF batch_result.passed THEN <<>> ELSE batch_result.errors)
            \o Opt(Len(items) > BatchSizeCap, <<0, "Batch too large">>)
            \o Opt(Cardinality(sources) > 1, <<0, "Mixed sources in single batch">>)
    IN  IF batch_result.kind = "exception"
        THEN [kind |-> "exception", safe |-> FALSE, errors |-> <<>>]
        ELSE SafetyResult(Len(errors) = 0, errors)

\* pre_processing_safety_check, lines 404-428
PreProcessingSafetyCheck(items) == SafetyVerdict(ValidateBatch(items), items)

\* ------------------------------------------------------------------------
\* The drivers: BaseArticleScraper.scrape_articles (articles/base_scraper.py)
\* and ScraperCronJob._process_source (cron/scraper_job.py)
\* ------------------------------------------------------------------------

\* Longest URL list of a discovery, and longest list a source scraper
\* returns short of an oversized one.
MaxScrapeUrls == 2

\* models.py:24-32
SourceValues ==
    {"billboard", "rolling_stone", "pitchfork", "npr", "spotify",
     "apple_podcasts", "substack"}

\* The records the stages before validation may hand on: a well-formed one,
\* one of another source, one that passes with a score of 0.576, one whose
\* body is too short, one whose body is empty.
Exemplars ==
    { Item(WellFormed, "k1", 0),
      Item([WellFormed EXCEPT !.source = "NPR"], "k2", 0),
      Item([WellFormed EXCEPT !.repetitive = TRUE, !.low_text = TRUE, !.music = 2], "k1", 0),
      Item([WellFormed EXCEPT !.body_len = MinContentLength - 1], "k2", 0),
      Item(Normalised([WellFormed EXCEPT !.body_len = 0]), "k1", 0) }

\* the i-th record of a list gets its own id
Numbered(items) == [i \in 1..Len(items) |-> [items[i] EXCEPT !.id = i]]

ItemLists(n) == UNION { [1..m -> Exemplars] : m \in 0..n }

\* what a source scraper of the cron job may return
ScraperOutputs ==
    ItemLists(MaxScrapeUrls)
    \cup { [i \in 1..(BatchSizeCap + 1) |-> Item(WellFormed, "k1", 0)] }

\* Longest batch given to the batch checks short of the batches at the size
\* cap.
MaxItems == 4

\* The records of such a batch: those the stages hand on, and one without
\* attribution.
GateExemplars ==
    Exemplars
    \cup { Item(Normalised([WellFormed EXCEPT !.attribution = FALSE]), "k1", 0) }

\* n times the same record
Repeated(c, n) == [i \in 1..n |-> c]

\* the batches: every list of up to MaxItems records, and the well-formed
\* record repeated up to and beyond the size cap
GateBatches ==
    UNION { [1..m -> GateExemplars] : m \in 0..MaxItems }
    \cup { Repeated(Item(WellFormed, "k1", 0), n) :
                n \in {BatchSizeCap - 1, BatchSizeCap, BatchSizeCap + 1} }

\* validate_batch is called on the batch.
CallValidateBatch ==
    /\ gpc = "validate_batch"
    /\ gbatch' = ValidateBatch(gitems)
    /\ gpc' = IF gbatch'.kind = "exception" THEN "raised" ELSE "returned"
    /\ UNCHANGED <<gitems, gcheck, notGate>>

\* pre_processing_safety_check is called on the batch; it calls
\* validate_batch first (line 411).
CallSafetyCheck ==
    /\ gpc = "pre_processing_safety_check"
    /\ gbatch' = ValidateBatch(gitems)
    /\ gcheck' = SafetyVerdict(gbatch', gitems)
    /\ gpc' = IF gcheck'.kind = "exception" THEN "raised" ELSE "returned"
    /\ UNCHANGED <<gitems, notGate>>

\* what gather holds for a URL: nothing yet, None, an exception or a record;
\* `stage` tells how _process_single_url went
UrlResult(kind, item, stage) == [kind |-> kind, item |-> item, stage |-> stage]
Pending == UrlResult("pending", Item(WellFormed, "k1", 0), "none")

\* How _process_single_url may go for a URL (lines 198-230): the fetch
\* fails, the extraction fails, the enhancement hook or the relevance filter
\* raises, the record is not music-relevant, or all four steps succeed.
UrlOutcomes ==
    {"fetch_failed", "extract_failed", "hook_raised", "filter_raised",
     "not_relevant", "ok"}

\* _process_single_url, lines 196-234: the record when every step succeeded,
\* None after a failed step (lines 201-203, 214-216, 226-228) and after an
\* exception, which the handler at lines 232-234 turns into None.
ProcessSingleUrl(outcome, item) ==
    IF outcome = "ok"
    THEN UrlResult("item", item, outcome)
    ELSE UrlResult("none", Pending.item, outcome)

\* line 205: self.stats["fetched"] += 1 is reached unless the fetch failed
Fetched(outcome) == outcome # "fetch_failed"

\* the counters of self.stats, lines 64-72
NewStats ==
    [discovered |-> 0, fetched |-> 0, extracted |-> 0, validated |-> 0, uploaded |-> 0]

\* scrape_articles, lines 145-151: source_mapping.get(name.lower(),
\* Source.PITCHFORK), as the value of the enum member
SourceMapping(source_name) ==
    IF source_name = "pitchfork" THEN "pitchfork"
    ELSE IF source_name = "npr" THEN "npr"
    ELSE IF source_name = "rolling stone" THEN "rolling_stone"
    ELSE IF source_name = "billboard" THEN "billboard"
    ELSE "pitchfork"

\* What a driver ended with: nothing yet, the batch it made ("batch"), an
\* empty batch ("empty"), an exception ("raised"), or, for the cron job, its
\* result dictionary ("done"). `reason` is the reason a returned batch
\* carries, if any.
Returned(kind) == [kind |-> kind, reason |-> None]

\* _create_empty_batch(reason), lines 288-295: Source(source_name.lower())
\* raises ValueError for a name that is no value of the enum (the names of
\* the model are in lower case already); the batch is made of source,
\* content_items, total_discovered and total_scraped, and the reason
\* parameter is not used.
CreateEmptyBatch(reason, source_name) ==
    IF source_name \in SourceValues THEN Returned("empty") ELSE Returned("raised")

\* scrape_articles, lines 89, 165 and 191-194: the early returns and the
\* outer handler return _create_empty_batch(reason); the handlers of the
\* cron job return its result dictionary.
EmptyBatchReturn(driver, source_name, reason) ==
    IF driver = "_process_source" THEN Returned("done")
    ELSE CreateEmptyBatch(reason, source_name)

\* (mutant) the driver uploads whatever the gate said
AfterGateAlways(check) ==
    IF check.kind = "exception" THEN "except" ELSE "upload"

\* scrape_articles, lines 161-165; _process_source, lines 255-259
AfterGate(check) ==
    IF check.kind = "exception" THEN "except"
    ELSE IF ~check.safe THEN "return" ELSE "upload"

\* scrape_articles, lines 84-94: discovery raises, finds nothing, or finds
\* URLs of which the first max_articles are processed.
ScrapeDiscover ==
    /\ sdriver = "scrape_articles"
    /\ spc = "discover"
    /\ \/ /\ faults < MaxFaults
          /\ faults' = faults + 1
          /\ spc' = "returned"
          /\ sret' = EmptyBatchReturn(sdriver, sconfig.source_name, "Scraping exception")
          /\ UNCHANGED <<surls, sres, stats>>
       \/ /\ \E n \in 0..MaxScrapeUrls :
                /\ stats' = [stats EXCEPT !.discovered = n]
                /\ IF n = 0
                   THEN /\ spc' = "returned"
                        /\ sret' = EmptyBatchReturn(sdriver, sconfig.source_name, "No URLs discovered")
                        /\ UNCHANGED <<surls, sres>>
                   ELSE /\ surls' = IF n < sconfig.max_articles THEN n ELSE sconfig.max_articles
                        /\ sres' = [i \in 1..surls' |-> Pending]
                        /\ spc' = "fetch"
                        /\ UNCHANGED sret
          /\ UNCHANGED faults
    /\ UNCHANGED <<storage, now, uploadVars, sdriver, sconfig, scraped_items,
                   validated_items, sbatch, sgate, sdone, ssource, sruns, notScrape>>

\* _process_single_url, lines 196-234, for one URL: it returns a record or
\* None; an exception outside its try block is kept by gather.
ScrapeProcessUrl(i) ==
    /\ spc = "fetch"
    /\ sres[i].kind = "pending"
    /\ \/ /\ \E outcome \in UrlOutcomes, e \in {x \in Exemplars : x.music >= 2} :
                /\ outcome # "ok" => e = Pending.item
                /\ sres' = [sres EXCEPT ![i] = ProcessSingleUrl(outcome, e)]
                /\ stats' = IF Fetched(outcome)
                            THEN [stats EXCEPT !.fetched = @ + 1] ELSE stats
          /\ UNCHANGED faults
       \/ /\ faults < MaxFaults
          /\ faults' = faults + 1
          /\ sres' = [sres EXCEPT ![i] = UrlResult("exception", Pending.item, "task")]
          /\ UNCHANGED stats
    /\ sdone' = Append(sdone, i)
    /\ UNCHANGED <<storage, now, uploadVars, sdriver, sconfig, spc, surls,
                   scraped_items, validated_items, sbatch, sgate, sret, ssource, sruns,
                   notScrape>>

\* (mutant) the loop over the results ends at the first one that is no
\* record
CollectedUntilFailure(res, n) ==
    LET ok == {i \in 1..n : \A j \in 1..i : res[j].kind = "item"}
    IN  [i \in 1..Cardinality(ok) |-> res[i].item]

\* (mutant) the results are read as the tasks ended
CollectedAsCompleted(res, n) ==
    LET done == SelectSeq(sdone, LAMBDA i : i <= n /\ res[i].kind = "item")
    IN  [k \in 1..Len(done) |-> res[done[k]].item]

\* the results of gather that are records, in the order of the URLs
RECURSIVE Collected(_, _)
Collected(res, n) ==
    IF n = 0 THEN <<>>
    ELSE Collected(res, n - 1)
            \o (IF res[n].kind = "item" THEN << res[n].item >> ELSE <<>>)

\* scrape_articles, lines 107-116
ScrapeCollect ==
    /\ spc = "fetch"
    /\ \A i \in 1..surls : sres[i].kind # "pending"
    /\ scraped_items' = Numbered(Collected(sres, surls))
    /\ stats' = [stats EXCEPT !.extracted = Len(scraped_items')]
    /\ spc' = "validate"
    /\ UNCHANGED <<envVars, uploadVars, sdriver, sconfig, surls, sres,
                   validated_items, sbatch, sgate, sret, sdone, ssource, sruns, notScrape>>

\* _process_source, lines 210-222: the scraper of the source is run. An
\* unknown source yields the empty list, an exception of the scraper goes
\* to the handler at lines 292-294.
RunSourceScraper ==
    /\ sdriver = "_process_source"
    /\ spc = "run"
    /\ \/ /\ sconfig.source_name \in {"pitchfork", "npr", "rolling_stone", "billboard"}
          /\ \/ /\ \E out \in ScraperOutputs : scraped_items' = Numbered(out)
                /\ spc' = "validate"
                /\ UNCHANGED <<faults, sret>>
             \/ /\ faults < MaxFaults
                /\ faults' = faults + 1
                /\ spc' = "returned"
                /\ sret' = EmptyBatchReturn(sdriver, sconfig.source_name, "Scraping exception")
                /\ UNCHANGED scraped_items
       \/ /\ sconfig.source_name \notin {"pitchfork", "npr", "rolling_stone", "billboard"}
          /\ scraped_items' = <<>>
          /\ spc' = "validate"
          /\ UNCHANGED <<faults, sret>>
    /\ UNCHANGED <<storage, now, uploadVars, sdriver, sconfig, surls, sres,
                   validated_items, sbatch, sgate, sdone, ssource, stats, sruns, notScrape>>

\* the records of a list that pass validation
Passing(items) ==
    SelectSeq(items, LAMBDA c : ValidateScrapedContent(c).passed)

\* scrape_articles, lines 123-138; _process_source, lines 226-235: the whole
\* validation loop. An exception of validate_scraped_content goes to the
\* outer handler.
ScrapeValidate ==
    /\ spc = "validate"
    /\ LET required == sdriver = "_process_source" \/ sconfig.validation_required
           raises == \E i \in 1..Len(scraped_items) :
                        ValidateScrapedContent(scraped_items[i]).kind = "exception"
       IN  IF required /\ raises
           THEN /\ spc' = "returned"
                /\ sret' = EmptyBatchReturn(sdriver, sconfig.source_name, "Scraping exception")
                /\ UNCHANGED <<validated_items, stats>>
           ELSE /\ validated_items' =
                        IF required THEN Passing(scraped_items) ELSE scraped_items
                /\ stats' = IF sdriver = "scrape_articles"
                            THEN [stats EXCEPT !.validated = Len(validated_items')]
                            ELSE stats
                /\ spc' = "gate"
                /\ UNCHANGED sret
    /\ sdone' = <<>>
    /\ UNCHANGED <<envVars, uploadVars, sdriver, sconfig, surls, sres,
                   scraped_items, sbatch, sgate, ssource, sruns, notScrape>>

\* scrape_articles, lines 153-165; _process_source, lines 247-259: the batch
\* is made of the validated records and put to the safety check.
ScrapeGate ==
    /\ spc = "gate"
    /\ sbatch' = validated_items
    /\ ssource' = IF sdriver = "scrape_articles"
                  THEN SourceMapping(sconfig.source_name) ELSE ssource
    /\ sgate' = PreProcessingSafetyCheck(validated_items)
    /\ IF AfterGate(sgate') = "upload"
       THEN spc' = "upload" /\ UNCHANGED sret
       ELSE /\ spc' = "returned"
            /\ sret' = EmptyBatchReturn(sdriver, sconfig.source_name,
                                        IF sgate'.kind = "exception"
                                        THEN "Scraping exception"
                                        ELSE "Safety check failed")
    /\ UNCHANGED <<envVars, uploadVars, sdriver, sconfig, surls, sres,
                   scraped_items, validated_items, sdone, stats, sruns, notScrape>>

\* scrape_articles, lines 169-171; _process_source, lines 262-270:
\* upload_batch is called on the batch, unless the cron job runs dry or with
\* the upload switched off.
ScrapeUpload ==
    /\ spc = "upload"
    /\ IF sdriver = "_process_source"
            /\ (~sconfig.enable_s3_upload \/ sconfig.dry_run)
       THEN /\ spc' = "returned"
            /\ sret' = Returned("done")
            /\ UNCHANGED <<upc, ubatch>>
       ELSE /\ upc' = [upc EXCEPT ![1] = "called"]
            /\ ubatch' = [ubatch EXCEPT ![1] = sbatch]
            /\ spc' = "uploading"
            /\ UNCHANGED sret
    /\ UNCHANGED <<envVars, ui, ukey, ures, sdriver, sconfig, surls, sres,
                   scraped_items, validated_items, sbatch, sgate, sdone, ssource, stats,
                   sruns, notScrape>>

\* scrape_articles, lines 171-189; _process_source, lines 264-294:
\* upload_batch has returned its report or raised; scrape_articles catches
\* the exception at line 185 and returns the batch, the cron job catches it
\* at line 292.
ScrapeReturn ==
    /\ spc = "uploading"
    /\ upc[1] \in {"returned", "raised"}
    /\ spc' = "returned"
    /\ sret' = IF sdriver = "_process_source" THEN Returned("done") ELSE Returned("batch")
    /\ stats' = IF sdriver = "scrape_articles" /\ upc[1] = "returned"
                THEN [stats EXCEPT !.uploaded = ures[1].successful_uploads]
                ELSE stats
    /\ UNCHANGED <<envVars, uploadVars, sdriver, sconfig, surls, sres,
                   scraped_items, validated_items, sbatch, sgate, sdone, ssource, sruns,
                   notScrape>>

\* get_statistics, lines 277-286: each rate as numerator and denominator
StatRate(num, den) == [num |-> num, den |-> IF den < 1 THEN 1 ELSE den]
GetStatistics(st) ==
    [success_rate |-> StatRate(st.validated, st.discovered),
     extraction_rate |-> StatRate(st.extracted, st.fetched),
     validation_rate |-> StatRate(st.validated, st.extracted),
     upload_rate |-> StatRate(st.uploaded, st.validated),
     end_to_end_success |-> StatRate(st.uploaded, st.discovered)]

\* _upload_batch_manifest, lines 297-300: the prefix of the manifest key
ManifestPrefix(source) == <<"manifests", "scraped", source>>

\* longest sequence of runs of scrape_articles on one scraper instance
MaxRuns == 3

\* scrape_articles is called again on the instance: its locals are new,
\* self.stats and the bucket are what the runs before left
ScrapeAgain ==
    /\ sdriver = "scrape_articles"
    /\ spc = "returned"
    /\ sret.kind # "raised"
    /\ sruns < MaxRuns
    /\ sruns' = sruns + 1
    /\ spc' = "discover"
    /\ surls' = 0
    /\ sres' = <<>>
    /\ scraped_items' = <<>>
    /\ validated_items' = <<>>
    /\ sbatch' = <<>>
    /\ sgate' = NoCheck
    /\ sret' = Returned("none")
    /\ sdone' = <<>>
    /\ ssource' = None
    /\ upc' = [w \in Writers |-> "idle"]
    /\ ubatch' = [w \in Writers |-> <<>>]
    /\ ui' = [w \in Writers |-> 0]
    /\ ukey' = [w \in Writers |-> NoKey]
    /\ ures' = [w \in Writers |-> NewUploadResults]
    /\ UNCHANGED <<envVars, sdriver, sconfig, stats, notScrape>>

\* ------------------------------------------------------------------------
\* ScrapedContent (shared/models.py)
\* ------------------------------------------------------------------------

\* Longest body text of a record, in characters.
MaxBodyLength == 3

\* A body text is a string of word characters and blanks.
Texts == UNION { [1..n -> {"w", " "}] : n \in 0..MaxBodyLength }

\* len(content.split()): the number of maximal runs of non-blank characters
WordCount(text) ==
    Cardinality({i \in 1..Len(text) :
                    text[i] # " " /\ (i = 1 \/ text[i - 1] = " ")})

\* hashlib.sha256(content.encode()).hexdigest()[:16]: a value that depends
\* on the text alone, taken to differ for the different texts of the model
Digest(text) == <<"sha256", text>>

\* content_hash: Optional[str] = None
NoHash == <<"none", <<>>>>

\* The generated __init__ has assigned the arguments (content, word_count
\* and content_hash among them, the latter two 0 and None by default);
\* __post_init__, lines 82-86, derives both from a body that is not empty.
Construct ==
    /\ rpc = "new"
    /\ IF content # <<>>
       THEN /\ word_count' = WordCount(content)
            /\ content_hash' = Digest(content)
       ELSE UNCHANGED <<word_count, content_hash>>
    /\ rpc' = "made"
    /\ UNCHANGED <<content, notRecord>>

\* record.content = text, by an enhancement hook or any later statement:
\* ScrapedContent is a plain dataclass, the assignment sets the attribute
\* and nothing else.
AssignContent ==
    /\ rpc \in {"made", "assigned"}
    /\ \E text \in Texts : content' = text
    /\ rpc' = "assigned"
    /\ UNCHANGED <<word_count, content_hash, notRecord>>

\* ------------------------------------------------------------------------
\* S3ContentUploader._extract_artist_name   (shared/s3_uploader.py)
\* ------------------------------------------------------------------------

\* sanitized[:50]
MaxArtistLength == 50
\* len(artist.split()) <= 3
MaxArtistWords == 3
\* longest source name given to _extract_artist_name
MaxNameLength == 3

\* Strings are sequences of characters. [a-z0-9], the class the sanitiser
\* keeps besides white space:
LowerAlnum ==
    {"a", "b", "c", "d", "e", "f", "g", "h", "i", "j", "k", "l", "m",
     "n", "o", "p", "q", "r", "s", "t", "u", "v", "w", "x", "y", "z",
     "0", "1", "2", "3", "4", "5", "6", "7", "8", "9"}
Space == " "

\* the characters of the names and captures given to it: a lower-case
\* letter, an upper-case one, a blank, an underscore, a hyphen
NameChars == {"a", "B", Space, "_", "-"}

\* str.lower(), character by character
LowerChar(c) == IF c = "B" THEN "b" ELSE c
Lower(text) == [i \in 1..Len(text) |-> LowerChar(text[i])]

Max(S) == CHOOSE x \in S : \A y \in S : y <= x

\* str.strip(ch): without the leading and trailing run of ch
Strip(text, ch) ==
    LET kept == {i \in 1..Len(text) : text[i] # ch}
    IN  IF kept = {} THEN <<>> ELSE SubSeq(text, Min(kept), Max(kept))

\* re.sub(r'\s+', '_', text): every maximal run of blanks becomes one '_'
CollapseSpaces(text) ==
    LET heads == {i \in 1..Len(text) : text[i] # Space \/ i = 1 \/ text[i - 1] # Space}
        nth(k) == CHOOSE i \in heads : Cardinality({j \in heads : j <= i}) = k
    IN  [k \in 1..Cardinality(heads) |->
            IF text[nth(k)] = Space THEN "_" ELSE text[nth(k)]]

\* len(text.split())
WordsIn(text) ==
    Cardinality({i \in 1..Len(text) :
        text[i] # Space /\ (i = 1 \/ text[i - 1] = Space)})

UnknownArtist == <<"u", "n", "k", "n", "o", "w", "n", "_", "a", "r", "t", "i", "s", "t">>
VariousPrefix == <<"v", "a", "r", "i", "o", "u", "s", "_">>
UnknownSource == <<"u", "n", "k", "n", "o", "w", "n">>

\* _sanitize_artist_name, lines 223-236
SanitizeArtistName(artist) ==
    LET kept == SelectSeq(Lower(artist), LAMBDA c : c \in LowerAlnum \cup {Space})
        joined == CollapseSpaces(Strip(kept, Space))
        cut == Strip(SubSeq(joined, 1, Min({Len(joined), MaxArtistLength})), "_")
    IN  IF cut = <<>> THEN UnknownArtist ELSE cut

\* what re.search makes of one pattern: no match, or the text of group(1)
Capture(text) == [matched |-> TRUE, text |-> text]
NoMatch == [matched |-> FALSE, text |-> <<>>]

\* the absent source_attribution
NoAttribution == [present |-> FALSE, source |-> <<>>]
Attribution(source) == [present |-> TRUE, source |-> source]

\* the loop of lines 183-187 over the four title patterns: the first that
\* matches decides
RECURSIVE TitleArtist(_, _)
TitleArtist(title, k) ==
    IF k > Len(title) THEN NoMatch
    ELSE IF title[k].matched THEN Capture(SanitizeArtistName(Strip(title[k].text, Space)))
    ELSE TitleArtist(title, k + 1)

\* the loop of lines 199-204 over the three content patterns: the first
\* that matches with at most three words decides
RECURSIVE BodyArtist(_, _)
BodyArtist(body, k) ==
    IF k > Len(body) THEN NoMatch
    ELSE IF body[k].matched /\ WordsIn(Strip(body[k].text, Space)) <= MaxArtistWords
         THEN Capture(SanitizeArtistName(Strip(body[k].text, Space)))
    ELSE BodyArtist(body, k + 1)

\* lines 206-208
FallbackArtist(attribution) ==
    LET source == IF attribution.present THEN attribution.source ELSE UnknownSource
    IN  SanitizeArtistName(VariousPrefix \o Lower(source))

\* _extract_artist_name, lines 174-208
ExtractArtistName(title, body, attribution) ==
    IF TitleArtist(title, 1).matched THEN TitleArtist(title, 1).text
    ELSE IF BodyArtist(body, 1).matched THEN BodyArtist(body, 1).text
    ELSE FallbackArtist(attribution)

CallExtractArtistName ==
    /\ apc = "called"
    /\ alabel' = ExtractArtistName(atitle, abody, asource)
    /\ apc' = "returned"
    /\ UNCHANGED <<atitle, abody, asource, notArtist>>

\* ------------------------------------------------------------------------
\* ScraperOrchestrator.lambda_handler   (lambda/scraper_orchestrator.py)
\* ------------------------------------------------------------------------

\* MIN_SUCCESS_RATE, default '0.7', in tenths
MinSuccessRateTenths == 7
\* MAX_ERROR_COUNT, default '10'
DefaultMaxErrorCount == 10
\* _mock_scraper_execution: min(max_articles * 2, 20)
MockDiscoveredCap == 20
\* scrapers named by an event
MaxScrapers == 2

\* the checks of _run_safety_checks, in the order of its list
SafetyChecks ==
    <<"data_lake_integrity", "api_stability", "s3_access", "resource_limits",
      "critical_artists">>

\* the event after {**default_config, **event}: valid is whether the merge
\* and the loop over config["scrapers"] go through, numeric whether
\* max_articles is a number
Event(valid, scrapers, numeric, max_articles, enable_upload) ==
    [valid |-> valid, scrapers |-> scrapers, numeric |-> numeric,
     max_articles |-> max_articles, enable_upload |-> enable_upload]
NoEvent == Event(TRUE, <<>>, TRUE, 0, FALSE)

Environment(max_error_count, enable_s3_upload) ==
    [max_error_count |-> max_error_count, enable_s3_upload |-> enable_s3_upload]
NoEnvironment == Environment(DefaultMaxErrorCount, TRUE)

\* self.results of __init__, lines 46-56: the counters, the number of
\* error messages, the scrapers that delivered, the checks recorded
NewResults ==
    [scrapers_executed |-> <<>>, total_discovered |-> 0, total_scraped |-> 0,
     total_uploaded |-> 0, errors |-> 0, safety_checks |-> <<>>,
     rollback_performed |-> FALSE]

Response(statusCode, message) == [statusCode |-> statusCode, message |-> message]
NoResponse == Response(0, "none")

\* _parse_event, lines 105-127: one configuration per scraper name
ScraperConfigEntry(name, event, env) ==
    [name |-> name, numeric |-> event.numeric, max_articles |-> event.max_articles,
     enable_upload |-> event.enable_upload /\ env.enable_s3_upload]

\* _mock_scraper_execution, lines 287-306
MockScraperExecution(config) ==
    LET mock_discovered == Min({config.max_articles * 2, MockDiscoveredCap})
        mock_scraped == Min({config.max_articles, mock_discovered})
    IN  [raised |-> FALSE, scraper |-> config.name, discovered |-> mock_discovered,
         scraped |-> mock_scraped,
         uploaded |-> IF config.enable_upload THEN mock_scraped ELSE 0]

ScraperRaised(name) ==
    [raised |-> TRUE, scraper |-> name, discovered |-> 0, scraped |-> 0, uploaded |-> 0]

\* _run_single_scraper, lines 272-285: ValueError for a name it does not
\* know, TypeError from min() when max_articles is not a number
RunSingleScraper(config) ==
    IF config.name \notin {"pitchfork", "npr"} THEN ScraperRaised(config.name)
    ELSE IF ~config.numeric THEN ScraperRaised(config.name)
    ELSE MockScraperExecution(config)

\* one round of the loop of _execute_scrapers_safely, lines 244-270
AfterScraper(res, scraper_result) ==
    IF scraper_result.raised
    THEN [res EXCEPT !.errors = @ + 1]
    ELSE [res EXCEPT !.scrapers_executed = Append(@, scraper_result.scraper),
                     !.total_discovered = @ + scraper_result.discovered,
                     !.total_scraped = @ + scraper_result.scraped,
                     !.total_uploaded = @ + scraper_result.uploaded]

\* _validate_execution, lines 308-330
ValidateExecution(res, env, api_stable) ==
    IF res.total_discovered > 0
        /\ res.total_scraped * 10 < MinSuccessRateTenths * res.total_discovered
    THEN FALSE
    ELSE IF res.errors > env.max_error_count THEN FALSE
    ELSE api_stable

\* (mutant) a rollback that records nothing
PerformRollbackUnrecorded(res) == res

\* _perform_rollback, lines 332-356
PerformRollback(res) == [res EXCEPT !.rollback_performed = TRUE]

Verdict(passed) == IF passed THEN "passed" ELSE "failed"

\* lines 63-65: _parse_event; an event that is no mapping, or whose
\* "scrapers" cannot be iterated, raises there
LambdaParseEvent ==
    /\ lpc = "called"
    /\ IF levent.valid
       THEN /\ lpc' = "safety_checks"
            /\ lk' = 1
            /\ lphases' = Append(lphases, "safety_checks")
       ELSE /\ lpc' = "except"
            /\ UNCHANGED <<lk, lphases>>
    /\ UNCHANGED <<levent, lenv, lresults, safety_passed, validation_passed, lresp, notLambda>>

\* one round of the loop of _run_safety_checks, lines 143-162: the check
\* passes, fails or raises, and what it gave is recorded
LambdaSafetyCheck ==
    /\ lpc = "safety_checks"
    /\ lk <= Len(SafetyChecks)
    /\ \E outcome \in {"passed", "failed", "raised"} :
        lresults' = [lresults EXCEPT !.safety_checks =
                        Append(@, [name |-> SafetyChecks[lk], passed |-> outcome = "passed"])]
    /\ lk' = lk + 1
    /\ UNCHANGED <<lpc, levent, lenv, safety_passed, validation_passed, lphases, lresp, notLambda>>

\* lines 67-70 and 164: all_passed is returned and decides
LambdaAfterSafetyChecks ==
    /\ lpc = "safety_checks"
    /\ lk > Len(SafetyChecks)
    /\ safety_passed' = Verdict(\A i \in 1..Len(lresults.safety_checks) :
                                    lresults.safety_checks[i].passed)
    /\ IF safety_passed' = "passed"
       THEN /\ lpc' = "scraper_execution"
            /\ lk' = 1
            /\ lphases' = Append(lphases, "scraper_execution")
            /\ lresp' = lresp
       ELSE /\ lpc' = "finally"
            /\ lresp' = Response(500, "Safety checks failed")
            /\ UNCHANGED <<lk, lphases>>
    /\ UNCHANGED <<levent, lenv, lresults, validation_passed, notLambda>>

\* one round of the loop of _execute_scrapers_safely
LambdaRunScraper ==
    /\ lpc = "scraper_execution"
    /\ lk <= Len(levent.scrapers)
    /\ lresults' = AfterScraper(lresults,
                    RunSingleScraper(ScraperConfigEntry(levent.scrapers[lk], levent, lenv)))
    /\ lk' = lk + 1
    /\ UNCHANGED <<lpc, levent, lenv, safety_passed, validation_passed, lphases, lresp, notLambda>>

\* lines 75-79: _validate_execution, and on failure _perform_rollback and
\* the error response
LambdaValidateExecution ==
    /\ lpc = "scraper_execution"
    /\ lk > Len(levent.scrapers)
    /\ \E api_stable \in BOOLEAN :
        validation_passed' = Verdict(ValidateExecution(lresults, lenv, api_stable))
    /\ lphases' = Append(lphases, "post_validation")
    /\ IF validation_passed' = "passed"
       THEN /\ lpc' = "success"
            /\ UNCHANGED <<lresults, lresp>>
       ELSE /\ lpc' = "finally"
            /\ lresults' = PerformRollback(lresults)
            /\ lresp' = Response(500, "Post-execution validation failed")
    /\ UNCHANGED <<levent, lenv, lk, safety_passed, notLambda>>

\* lines 81-85: the notification, which swallows its failures, and the
\* success response
LambdaSuccess ==
    /\ lpc = "success"
    /\ lresp' = Response(200, "success")
    /\ lpc' = "finally"
    /\ UNCHANGED <<levent, lenv, lk, lresults, safety_passed, validation_passed, lphases, notLambda>>

\* lines 87-98: the handler of any exception: rollback, notification, error
\* response
LambdaExcept ==
    /\ lpc = "except"
    /\ lresults' = PerformRollback(lresults)
    /\ lresp' = Response(500, "exception")
    /\ lpc' = "finally"
    /\ UNCHANGED <<levent, lenv, lk, safety_passed, validation_passed, lphases, notLambda>>

\* lines 100-102: _log_metrics, which swallows its failures; the response
\* is handed to the caller
LambdaFinally ==
    /\ lpc = "finally"
    /\ lpc' = "returned"
    /\ UNCHANGED <<levent, lenv, lk, lresults, safety_passed, validation_passed, lphases, lresp,
                   notLambda>>

\* ------------------------------------------------------------------------
\* Specifications
\* ------------------------------------------------------------------------

IdleEnv ==
    /\ storage = <<>>
    /\ now = 0
    /\ faults = 0

IdleUploader ==
    /\ upc = [w \in Writers |-> "idle"]
    /\ ubatch = [w \in Writers |-> <<>>]
    /\ ui = [w \in Writers |-> 0]
    /\ ukey = [w \in Writers |-> NoKey]
    /\ ures = [w \in Writers |-> NewUploadResults]

IdleFetcher ==
    /\ clock = 0
    /\ last_request_time = 0
    /\ max_concurrent = DefaultMaxConcurrent
    /\ furls = 0
    /\ fpc = <<>>
    /\ fstrat = <<>>
    /\ fwake = <<>>
    /\ fresp = <<>>
    /\ fres = <<>>
    /\ forder = <<>>
    /\ bres = <<>>

IdleExtractor ==
    /\ epc = "idle"
    /\ ehtml = 0
    /\ eout = <<>>
    /\ ek = 0
    /\ best_result = NoExtraction
    /\ best_confidence = 0
    /\ invoked = <<>>
    /\ eres = NoExtraction

IdleValidator ==
    /\ vpc = "idle"
    /\ vrec = WellFormed
    /\ vcond = "none"
    /\ vres = NoValidation
    /\ vprev = NoValidation

Config(name, required, most, upload, dry) ==
    [source_name |-> name, validation_required |-> required,
     max_articles |-> most, enable_s3_upload |-> upload, dry_run |-> dry]

IdleScraper ==
    /\ sdriver = "none"
    /\ sconfig = Config("pitchfork", TRUE, 0, TRUE, FALSE)
    /\ spc = "idle"
    /\ surls = 0
    /\ sres = <<>>
    /\ scraped_items = <<>>
    /\ validated_items = <<>>
    /\ sbatch = <<>>
    /\ sgate = NoCheck
    /\ sret = Returned("none")
    /\ sdone = <<>>
    /\ ssource = None
    /\ stats = NewStats
    /\ sruns = 1

IdleGate ==
    /\ gpc = "idle"
    /\ gitems = <<>>
    /\ gbatch = NoBatchResult
    /\ gcheck = NoCheck

IdleRecord ==
    /\ rpc = "idle"
    /\ content = <<>>
    /\ word_count = 0
    /\ content_hash = NoHash

IdleArtist ==
    /\ apc = "idle"
    /\ atitle = <<>>
    /\ abody = <<>>
    /\ asource = NoAttribution
    /\ alabel = <<>>

IdleLambda ==
    /\ lpc = "idle"
    /\ levent = NoEvent
    /\ lenv = NoEnvironment
    /\ lk = 0
    /\ lresults = NewResults
    /\ safety_passed = "unset"
    /\ validation_passed = "unset"
    /\ lphases = <<>>
    /\ lresp = NoResponse

\* --- the uploader: one writer process is handed a batch; the bucket holds
\* anything.

KeysOfShape(b, shape) ==
    (IF shape.base THEN {BaseKey(b)} ELSE {})
    \cup {NumKey(b, c) : c \in (1..shape.fill) \ shape.holes}

Shape(base, fill, holes) == [base |-> base, fill |-> fill, holes |-> holes]

InitShapes ==
    { Shape(FALSE, 0, {}),
      Shape(TRUE, 0, {}),
      Shape(TRUE, 1, {}),
      Shape(TRUE, 2, {1}),
      Shape(FALSE, 1, {}),
      Shape(TRUE, CounterLimit - 2, {}),
      Shape(TRUE, CounterLimit - 1, {}) }

InitStorages ==
    { [k \in KeysOfShape("k1", s1) \cup KeysOfShape("k2", s2) |-> ForeignObject] :
        s1 \in InitShapes, s2 \in {Shape(FALSE, 0, {}), Shape(TRUE, 0, {})} }

Batches ==
    UNION { { [i \in 1..n |-> Record(i, f[i])] : f \in [1..n -> Bases] } : n \in 0..MaxBatch }

InitUpload ==
    /\ storage \in InitStorages
    /\ now = 0
    /\ faults = 0
    /\ \E b \in Batches :
        /\ upc = [w \in Writers |-> IF w = 1 THEN "called" ELSE "idle"]
        /\ ubatch = [w \in Writers |-> IF w = 1 THEN b ELSE <<>>]
    /\ ui = [w \in Writers |-> 0]
    /\ ukey = [w \in Writers |-> NoKey]
    /\ ures = [w \in Writers |-> NewUploadResults]
    /\ IdleFetcher
    /\ IdleExtractor
    /\ IdleValidator
    /\ IdleScraper
    /\ IdleGate
    /\ IdleRecord
    /\ IdleArtist
    /\ IdleLambda

NextUpload ==
    \/ \E w \in Writers : UploadBegin(w)
    \/ \E w \in Writers : UploadItemHead(w)
    \/ \E w \in Writers : UploadItemPut(w)
    \/ \E w \in Writers : UploadManifest(w)
    \/ Tick

SpecUpload == InitUpload /\ [][NextUpload]_vars

\* --- two writer processes: each is handed a batch of its own records,
\* whose derived keys may be the same as the other's; the bucket is empty or
\* holds one of the keys. No numbered variant runs out, so the time of day
\* plays no part.

\* longest batch of a writer that has a rival
MaxRaceBatch == 1

RaceBatches(w) ==
    UNION { { [i \in 1..n |-> Record(MaxRaceBatch * (w - 1) + i, f[i])] : f \in [1..n -> Bases] } :
                n \in 1..MaxRaceBatch }

InitRace ==
    /\ storage \in {<<>>, [k \in {BaseKey("k1")} |-> ForeignObject]}
    /\ now = 0
    /\ faults = 0
    /\ upc = [w \in Writers |-> "called"]
    /\ ubatch \in {b \in [Writers -> UNION {RaceBatches(w) : w \in Writers}] :
                        \A w \in Writers : b[w] \in RaceBatches(w)}
    /\ ui = [w \in Writers |-> 0]
    /\ ukey = [w \in Writers |-> NoKey]
    /\ ures = [w \in Writers |-> NewUploadResults]
    /\ IdleFetcher
    /\ IdleExtractor
    /\ IdleValidator
    /\ IdleScraper
    /\ IdleGate
    /\ IdleRecord
    /\ IdleArtist
    /\ IdleLambda

NextRace ==
    \/ \E w \in Writers : UploadBegin(w)
    \/ \E w \in Writers : UploadItemHead(w)
    \/ \E w \in Writers : UploadItemPut(w)
    \/ \E w \in Writers : UploadManifest(w)

SpecRace == InitRace /\ [][NextRace]_vars

\* --- the fetcher: batch_fetch(urls, max_concurrent) on a fresh
\* EnhancedFetcher (last_request_time = 0.0, long before the clock's
\* reading).

InitFetch ==
    /\ IdleEnv
    /\ IdleUploader
    /\ IdleExtractor
    /\ IdleValidator
    /\ IdleScraper
    /\ IdleGate
    /\ IdleRecord
    /\ IdleArtist
    /\ IdleLambda
    /\ clock = MinInterval
    /\ last_request_time = 0
    /\ max_concurrent = DefaultMaxConcurrent
    /\ furls \in 1..MaxUrls
    /\ fpc = [t \in 1..furls |-> "queued"]
    /\ fstrat = [t \in 1..furls |-> 0]
    /\ fwake = [t \in 1..furls |-> 0]
    /\ fresp = [t \in 1..furls |-> NoFetchResult]
    /\ fres = [t \in 1..furls |-> NoFetchResult]
    /\ forder = <<>>
    /\ bres = <<>>

NextFetch ==
    \/ \E t \in Tasks : FetchBegin(t)
    \/ \E t \in Tasks : TaskFault(t)
    \/ \E t \in Tasks : FetchThrottle(t)
    \/ \E t \in Tasks : FetchWake(t)
    \/ \E t \in Tasks : FetchResponse(t)
    \/ \E t \in Tasks : FetchDecide(t)
    \/ BatchReturn
    \/ ClockTick

SpecFetch == InitFetch /\ [][NextFetch]_vars

\* --- the extractor: extract_content on a page of any length, whatever each
\* strategy makes of it.

InitExtract ==
    /\ IdleEnv
    /\ IdleUploader
    /\ IdleFetcher
    /\ IdleValidator
    /\ IdleScraper
    /\ IdleGate
    /\ IdleRecord
    /\ IdleArtist
    /\ IdleLambda
    /\ epc = "called"
    /\ ehtml \in {0, MinHtmlLength - 1, MinHtmlLength}
    /\ eout \in [1..Len(ExtractStrategies) -> ExtractOutcomes]
    /\ ek = 0
    /\ best_result = NoExtraction
    /\ best_confidence = 0
    /\ invoked = <<>>
    /\ eres = NoExtraction

NextExtract ==
    \/ ExtractBegin
    \/ ExtractStrategy
    \/ ExtractReturn

SpecExtract == InitExtract /\ [][NextExtract]_vars

\* --- the validator: validate_scraped_content on a record, and again on
\* the record with a hard-error condition added if it passed.

InitValidate ==
    /\ IdleEnv
    /\ IdleUploader
    /\ IdleFetcher
    /\ IdleExtractor
    /\ IdleScraper
    /\ IdleGate
    /\ IdleRecord
    /\ IdleArtist
    /\ IdleLambda
    /\ vpc = "called"
    /\ vrec \in InputRecords
    /\ vcond = "none"
    /\ vres = NoValidation
    /\ vprev = NoValidation

NextValidate ==
    \/ ValidateRecord
    \/ AddCondition

SpecValidate == InitValidate /\ [][NextValidate]_vars

\* --- the drivers: one run of scrape_articles of a scraper whose
\* source_name is an enum value or not, with or without validation, or one
\* run of _process_source of the cron job for a known or unknown source,
\* with the upload on or off; the bucket is empty or holds one derived key.

Configs(driver) ==
    IF driver = "scrape_articles"
    THEN { Config(name, required, most, TRUE, FALSE) :
            name \in {"pitchfork", "rolling_stone", "rolling stone"},
            required \in BOOLEAN, most \in 1..MaxScrapeUrls }
    ELSE { Config(name, TRUE, MaxScrapeUrls, upload, dry) :
            name \in {"pitchfork", "unknown"},
            upload \in BOOLEAN, dry \in BOOLEAN }

InitScrape ==
    /\ storage \in {<<>>, [k \in {BaseKey("k1")} |-> ForeignObject]}
    /\ now = 0
    /\ faults = 0
    /\ IdleUploader
    /\ IdleFetcher
    /\ IdleExtractor
    /\ IdleValidator
    /\ IdleGate
    /\ IdleRecord
    /\ IdleArtist
    /\ IdleLambda
    /\ sdriver \in {"scrape_articles", "_process_source"}
    /\ sconfig \in Configs(sdriver)
    /\ spc = IF sdriver = "scrape_articles" THEN "discover" ELSE "run"
    /\ surls = 0
    /\ sres = <<>>
    /\ scraped_items = <<>>
    /\ validated_items = <<>>
    /\ sbatch = <<>>
    /\ sgate = NoCheck
    /\ sret = Returned("none")
    /\ sdone = <<>>
    /\ ssource = None
    /\ stats = NewStats
    /\ sruns = 1

NextScrape ==
    \/ ScrapeDiscover
    \/ \E i \in 1..surls : ScrapeProcessUrl(i)
    \/ ScrapeCollect
    \/ RunSourceScraper
    \/ ScrapeValidate
    \/ ScrapeGate
    \/ ScrapeUpload
    \/ \E w \in Writers : UploadBegin(w)
    \/ \E w \in Writers : UploadItemHead(w)
    \/ \E w \in Writers : UploadItemPut(w)
    \/ \E w \in Writers : UploadManifest(w)
    \/ ScrapeReturn

SpecScrape == InitScrape /\ [][NextScrape]_vars

\* --- repeated runs: scrape_articles is called up to MaxRuns times on the
\* instance of one of the four article scrapers, one article a run.

InitRuns ==
    /\ IdleEnv
    /\ IdleUploader
    /\ IdleFetcher
    /\ IdleExtractor
    /\ IdleValidator
    /\ IdleGate
    /\ IdleRecord
    /\ IdleArtist
    /\ IdleLambda
    /\ sdriver = "scrape_articles"
    /\ sconfig \in { Config(name, TRUE, 1, TRUE, FALSE) :
                        name \in {"pitchfork", "npr", "rolling_stone", "billboard"} }
    /\ spc = "discover"
    /\ surls = 0
    /\ sres = <<>>
    /\ scraped_items = <<>>
    /\ validated_items = <<>>
    /\ sbatch = <<>>
    /\ sgate = NoCheck
    /\ sret = Returned("none")
    /\ sdone = <<>>
    /\ ssource = None
    /\ stats = NewStats
    /\ sruns = 1

NextRuns ==
    \/ ScrapeDiscover
    \/ \E i \in 1..surls : ScrapeProcessUrl(i)
    \/ ScrapeCollect
    \/ ScrapeValidate
    \/ ScrapeGate
    \/ ScrapeUpload
    \/ UploadBegin(1)
    \/ UploadItemHead(1)
    \/ UploadItemPut(1)
    \/ UploadManifest(1)
    \/ ScrapeReturn
    \/ ScrapeAgain

SpecRuns == InitRuns /\ [][NextRuns]_vars

\* --- the batch checks: validate_batch or pre_processing_safety_check is
\* called once on a batch.

InitGate ==
    /\ IdleEnv
    /\ IdleUploader
    /\ IdleFetcher
    /\ IdleExtractor
    /\ IdleValidator
    /\ IdleScraper
    /\ IdleRecord
    /\ IdleArtist
    /\ IdleLambda
    /\ gpc \in {"validate_batch", "pre_processing_safety_check"}
    /\ gitems \in {Numbered(items) : items \in GateBatches}
    /\ gbatch = NoBatchResult
    /\ gcheck = NoCheck

NextGate ==
    \/ CallValidateBatch
    \/ CallSafetyCheck

SpecGate == InitGate /\ [][NextGate]_vars

\* --- a record: ScrapedContent(...) is called with a body and, by default
\* or not, a word count and a hash; its body is assigned to later on.

InitRecord ==
    /\ IdleEnv
    /\ IdleUploader
    /\ IdleFetcher
    /\ IdleExtractor
    /\ IdleValidator
    /\ IdleScraper
    /\ IdleGate
    /\ IdleArtist
    /\ IdleLambda
    /\ rpc = "new"
    /\ content \in Texts
    /\ word_count \in {0, MaxBodyLength + 1}
    /\ content_hash \in {NoHash, Digest(<<"w">>)}

NextRecord ==
    \/ Construct
    \/ AssignContent

SpecRecord == InitRecord /\ [][NextRecord]_vars

\* --- the artist label: _extract_artist_name on a record whose title and
\* body match any of the patterns or none, with any source name or no
\* attribution.

Names == UNION { [1..n -> NameChars] : n \in 0..MaxNameLength }

\* what a pattern captures: a name, or more words than a name has
Captures == {<<"a">>, <<"B", Space, "-">>, <<"a", Space, "a", Space, "a", Space, "a">>}
\* the content patterns capture [a-z\s]+ only
BodyCaptures == {<<"a">>, <<Space, "a", Space, "a">>, <<"a", Space, "a", Space, "a", Space, "a">>}

TitleMatches ==
    {[k \in 1..4 |-> NoMatch]}
        \cup {[k \in 1..4 |-> IF k = p THEN Capture(c) ELSE NoMatch] : p \in 1..4, c \in Captures}

BodyMatches == [1..3 -> {NoMatch} \cup {Capture(c) : c \in BodyCaptures}]

InitArtist ==
    /\ IdleEnv
    /\ IdleUploader
    /\ IdleFetcher
    /\ IdleExtractor
    /\ IdleValidator
    /\ IdleScraper
    /\ IdleGate
    /\ IdleRecord
    /\ IdleLambda
    /\ apc = "called"
    /\ atitle \in TitleMatches
    /\ abody \in BodyMatches
    /\ asource \in {NoAttribution} \cup {Attribution(n) : n \in Names}
    /\ alabel = <<>>

NextArtist == CallExtractArtistName

SpecArtist == InitArtist /\ [][NextArtist]_vars

\* --- the orchestrator: lambda_handler is invoked once with an event.

ScraperNames == {"pitchfork", "npr", "rolling_stone"}
ScraperLists == UNION { [1..n -> ScraperNames] : n \in 0..MaxScrapers }
\* max_articles: none, the default, and values on either side of the
\* success rate the mock execution gives
ArticleCounts == {0, 10, 15}

Events ==
    { Event(valid, scrapers, numeric, max_articles, enable_upload) :
        valid \in BOOLEAN, scrapers \in ScraperLists, numeric \in BOOLEAN,
        max_articles \in ArticleCounts, enable_upload \in BOOLEAN }

InitLambda ==
    /\ IdleEnv
    /\ IdleUploader
    /\ IdleFetcher
    /\ IdleExtractor
    /\ IdleValidator
    /\ IdleScraper
    /\ IdleGate
    /\ IdleRecord
    /\ IdleArtist
    /\ lpc = "called"
    /\ levent \in Events
    /\ lenv \in {Environment(n, u) : n \in {0, DefaultMaxErrorCount}, u \in BOOLEAN}
    /\ lk = 0
    /\ lresults = NewResults
    /\ safety_passed = "unset"
    /\ validation_passed = "unset"
    /\ lphases = <<>>
    /\ lresp = NoResponse

NextLambda ==
    \/ LambdaParseEvent
    \/ LambdaSafetyCheck
    \/ LambdaAfterSafetyChecks
    \/ LambdaRunScraper
    \/ LambdaValidateExecution
    \/ LambdaSuccess
    \/ LambdaExcept
    \/ LambdaFinally

SpecLambda == InitLambda /\ [][NextLambda]_vars

\* ------------------------------------------------------------------------
\* Claims about the uploader
\* ------------------------------------------------------------------------

NoDuplicates(seq) == \A i, j \in 1..Len(seq) : i # j => seq[i] # seq[j]

\* C1 (No-overwrite): no step of a single sequential writer replaces or
\* removes an object that is in storage, whatever the storage held at the
\* start, and the keys of the records a writer persisted are pairwise
\* distinct.
C1_NoOverwrite ==
    /\ [][\A k \in DOMAIN storage :
            k \in DOMAIN storage' /\ storage'[k] = storage[k]]_vars
    /\ [](\A w \in Writers : NoDuplicates(ures[w].uploaded_keys))

\* ------------------------------------------------------------------------
\* Claims about the fetcher
\* ------------------------------------------------------------------------

\* the strategy outcomes line 86 turns down
Rejected(r) == r.kind = "exception" \/ ~r.success \/ r.len <= MinFetchLength

\* C3 (fetch cascade): a task moves through direct, archive.ph, archive.org,
\* Google cache in this order, one strategy at a time and only past a
\* strategy whose outcome was rejected; the first outcome that is successful
\* with more than 500 characters is what fetch_with_fallbacks returns, and
\* once it has returned no further strategy is invoked. So a successful
\* result always carries more than 500 characters.
C3_FetchCascade ==
    /\ [](\A t \in Tasks :
            (fpc[t] = "done" /\ fres[t].success) =>
                /\ fres[t].len > 500
                /\ fres[t].method = Strategies[fstrat[t]])
    /\ [][\A t \in Tasks :
            /\ (fstrat'[t] # fstrat[t]) =>
                    /\ fstrat'[t] = fstrat[t] + 1
                    /\ fstrat[t] >= 1 => (fpc[t] = "decide" /\ Rejected(fresp[t]))
            /\ (fpc[t] = "decide" /\ ~Rejected(fresp[t]) /\ fpc'[t] # "decide") =>
                    (fpc'[t] = "done" /\ fres'[t] = fresp[t])
            /\ Ended(t) =>
                    (fpc'[t] = fpc[t] /\ fstrat'[t] = fstrat[t] /\ fres'[t] = fres[t])
       ]_vars

\* C3 witness: a fetch was accepted at the third strategy.
C3_Witness ==
    \E t \in Tasks : fpc[t] = "done" /\ fres[t].success /\ fstrat[t] = 3

\* C4 (fetch never raises): no exception of a strategy leaves
\* fetch_with_fallbacks; a rejected outcome (an exception, a failed result,
\* content of at most 500 characters) sends the task to the next strategy,
\* and after the fourth rejection the result is the failure "All fetch
\* strategies failed".
C4_FetchNeverRaises ==
    /\ [](\A t \in Tasks :
            /\ fres[t].kind = "exception" => fres[t].method = "task"
            /\ (fpc[t] = "done" /\ ~fres[t].success) =>
                    (fres[t] = AllStrategiesFailed(t) /\ fstrat[t] = 4))
    /\ [][\A t \in Tasks :
            (fpc[t] = "decide" /\ Rejected(fresp[t]) /\ fpc'[t] # "decide") =>
                IF fstrat[t] < 4
                THEN fpc'[t] = "throttle" /\ fstrat'[t] = fstrat[t] + 1
                ELSE fpc'[t] = "done" /\ fres'[t] = AllStrategiesFailed(t)
       ]_vars

\* C4 witness: all four strategies were rejected.
C4_Witness ==
    \E t \in Tasks : fpc[t] = "done" /\ fres[t] = AllStrategiesFailed(t)

\* C5 (global throttle): whenever a request of any task goes out, at least
\* the minimum interval has passed since the previous request of the same
\* fetcher went out.
C5_GlobalThrottle ==
    [][\A t \in Tasks :
        (fpc[t] # "request" /\ fpc'[t] = "request") =>
            clock - last_request_time >= MinInterval]_vars

\* C6 (batch_fetch keeps the input order): the returned list has one entry
\* per URL, the i-th entry is the FetchResult of urls[i] in whatever order
\* the tasks ended, and a task that ended with an exception is listed as a
\* failure result for its URL while the other entries are the tasks' own
\* results.
C6_BatchOrder ==
    bres # <<>> =>
        /\ Len(bres) = furls
        /\ \A i \in 1..furls :
            /\ bres[i].kind = "result"
            /\ bres[i].url = i
            /\ fres[i].kind = "result" => bres[i] = fres[i]
            /\ fres[i].kind = "exception" =>
                    (~bres[i].success /\ bres[i].method = "error")

\* C6 witness: the second URL's task ended first, with an exception, and the
\* first URL was fetched.
C6_Witness ==
    /\ Len(bres) = 2
    /\ forder = <<2, 1>>
    /\ bres[2].method = "error"
    /\ bres[1].success

\* ------------------------------------------------------------------------
\* Claims about the extractor
\* ------------------------------------------------------------------------

\* the strategies whose result on the page is successful with a confidence
\* above 0.8
ShortCircuiting == {k \in 1..4 : eout[k] = "ok" /\ StrategyConfidence[k] > 8}

\* C7 (cascade short-circuit): the strategies are called in their fixed
\* order; once a called strategy has returned a result with confidence above
\* 0.8 it is the last strategy called and its result is the one returned;
\* and a cascade that ends before the fourth strategy ended at the
\* structured-data strategy.
C7_ShortCircuit ==
    /\ \A i \in 1..Len(invoked) : invoked[i] = i
    /\ \A i \in 1..Len(invoked) :
            invoked[i] \in ShortCircuiting =>
                /\ i = Len(invoked)
                /\ epc # "loop"
                /\ epc = "returned" =>
                        /\ eres.success
                        /\ eres.method = ExtractStrategies[invoked[i]]
                        /\ eres.confidence = StrategyConfidence[invoked[i]]
    /\ (epc \in {"exit", "returned"} /\ invoked # <<>> /\ Len(invoked) < 4) =>
            (invoked = <<1>> /\ eout[1] = "ok")

\* C7 witness: the structured-data strategy succeeded, the cascade returned
\* its result and the semantic strategy, which would have succeeded, was
\* never called.
C7_Witness ==
    /\ epc = "returned"
    /\ invoked = <<1>>
    /\ eout[2] = "ok"
    /\ eres.method = "structured_data"

\* the strategies whose result on the page is successful
Successful == {k \in 1..4 : eout[k] = "ok"}

\* C8 (best result wins): when the page passes the length guard and no
\* strategy short-circuits, extract_content has called all four strategies
\* in order by the time it returns, whichever of them raised; it returns the
\* successful result of the highest confidence, and if no strategy succeeded
\* it returns success=False with a non-empty error list.
C8_BestResult ==
    (epc = "returned" /\ ehtml >= 100 /\ ShortCircuiting = {}) =>
        /\ invoked = <<1, 2, 3, 4>>
        /\ IF Successful # {}
           THEN /\ eres.success
                /\ \A k \in Successful : eres.confidence >= StrategyConfidence[k]
                /\ \E k \in Successful :
                        /\ eres.method = ExtractStrategies[k]
                        /\ eres.confidence = StrategyConfidence[k]
           ELSE /\ ~eres.success
                /\ eres.errors # <<>>

\* C8 witness: the first strategy raised, the second failed, the last two
\* succeeded and the generic strategy's result was returned.
C8_Witness ==
    /\ epc = "returned"
    /\ eout = <<"raise", "fail", "ok", "ok">>
    /\ invoked = <<1, 2, 3, 4>>
    /\ eres.method = "generic"

\* C8 second case: nothing succeeded, one strategy having raised.
C8_WitnessFailure ==
    /\ epc = "returned"
    /\ eout = <<"fail", "raise", "fail", "fail">>
    /\ ~eres.success
    /\ eres.errors = <<"All extraction strategies failed">>

\* ------------------------------------------------------------------------
\* Claims about the validator
\* ------------------------------------------------------------------------

\* the hard errors the sub-checks report for a record
HardErrors(c) ==
    ValidateStructure(c).errors \o ValidateContentQuality(c).errors
        \o ValidateSourceAttribution(c).errors
        \o ValidateDataLakeCompatibility(c).errors

\* C9 (passed iff no hard error and score above 0.5): a ValidationResult
\* returned by validate_scraped_content has passed=True exactly when no
\* sub-check reported a hard error and its composite score is strictly
\* greater than 0.5; a record whose body matches failure signatures, however
\* many, has the signature error, a quality sub-score of 0.2 times the
\* sub-score of the same record without the match, and is not passed.
C9_PassedIff ==
    vpc = "returned" =>
        /\ vres.passed <=>
                (HardErrors(vrec) = <<>> /\ Units(vres.score) > 500000000)
        /\ vres.passed => vres.errors = <<>>
        /\ vrec.patterns > 0 =>
            /\ ~vres.passed
            /\ \E i \in 1..Len(vres.errors) :
                    vres.errors[i] = "Suspicious content pattern detected"
            /\ Units(vres.quality_score) * 5 =
                    Units(ValidateContentQuality([vrec EXCEPT !.patterns = 0]).score)

\* C9 witness: an otherwise well-formed record whose body matches two
\* failure signatures was validated and not passed.
C9_Witness ==
    /\ vpc = "returned"
    /\ vrec = [WellFormed EXCEPT !.patterns = 2]
    /\ ~vres.passed
    /\ Units(vres.quality_score) = 200000000

\* C9, the other cases: hard errors with a score above 0.5, and no hard
\* error with a score of exactly 0.5.
C9_WitnessErrorOnly ==
    /\ vpc = "returned"
    /\ vres.errors # <<>>
    /\ Units(vres.score) = 1000000000
    /\ ~vres.passed

C9_WitnessScoreOnly ==
    /\ vpc = "returned"
    /\ vres.errors = <<>>
    /\ Units(vres.score) = 500000000
    /\ ~vres.passed

\* C10 (validator monotonicity): every returned score lies in [0, 1], and
\* when a hard-error condition is added to a record that passed, validating
\* it again returns a result that is not passed and whose score is not above
\* the score before.
C10_Monotone ==
    /\ vres.kind = "result" =>
            (Units(vres.score) >= 0 /\ Units(vres.score) <= 1000000000)
    /\ (vcond # "none" /\ vpc # "called") =>
            /\ vpc = "returned"
            /\ ~vres.passed
            /\ Units(vres.score) <= Units(vprev.score)

\* C10 for the conditions under which validate_scraped_content returns.
C10_MonotoneWhenReturned ==
    /\ vres.kind = "result" =>
            (Units(vres.score) >= 0 /\ Units(vres.score) <= 1000000000)
    /\ (vcond # "none" /\ vpc = "returned") =>
            /\ ~vres.passed
            /\ Units(vres.score) <= Units(vprev.score)
    /\ (vcond # "none" /\ vpc = "raised") =>
            vcond \in {"no_attribution", "empty_body"}

\* ------------------------------------------------------------------------
\* Claims about the drivers
\* ------------------------------------------------------------------------

\* the errors the claim lists, read off the batch itself
TooLarge(items) == Len(items) > 100
MixedSources(items) ==
    \E i, j \in 1..Len(items) :
        items[i].attribution /\ items[j].attribution
            /\ items[i].source # items[j].source

C2_WitnessTooLarge ==
    /\ spc = "returned"
    /\ sgate.kind = "result" /\ ~sgate.safe
    /\ Len(sbatch) = 101
    /\ upc[1] = "idle"

C2_WitnessUploaded ==
    /\ spc = "returned"
    /\ sgate.kind = "result" /\ sgate.safe
    /\ ures[1].successful_uploads = 2
    /\ ures[1].manifest_key # NoKey

\* ------------------------------------------------------------------------
\* Claims about a record without attribution
\* ------------------------------------------------------------------------

\* C11: validate_scraped_content applied to a record whose attribution is
\* absent returns a ValidationResult with passed = False and an error that
\* reports the missing attribution.
C11_AbsentAttribution ==
    (vpc \in {"returned", "raised"} /\ ~vrec.attribution) =>
        /\ vres.kind = "result"
        /\ ~vres.passed
        /\ \E i \in 1..Len(vres.errors) : vres.errors[i] = "Missing source attribution"

\* ------------------------------------------------------------------------
\* Claims about the stage boundary
\* ------------------------------------------------------------------------

\* C12: a stage function returns its result-with-status object for every
\* input and never raises; here validate_scraped_content, for every record
\* with an attribution it is called on, a record with an empty body
\* included.
C12_StagesNeverRaise ==
    (vpc \in {"returned", "raised"} /\ vrec.attribution) =>
        (vpc = "returned" /\ vres.kind = "result")

\* ------------------------------------------------------------------------
\* Claims about the batch checks
\* ------------------------------------------------------------------------

\* what validate_scraped_content makes of each item of the batch
ItemResults == [i \in 1..Len(gitems) |-> ValidateScrapedContent(gitems[i])]

\* the fraction of passing items is at least 0.7 and the mean of the item
\* scores is at least 0.6
MeetsThresholds(results) ==
    /\ 10 * Cardinality({i \in 1..Len(results) : results[i].passed}) >= 7 * Len(results)
    /\ ScoreSum(results) >= 6000 * Len(results)

\* C13: validate_batch on a non-empty batch returns passed = True exactly
\* when at least 0.7 of the items pass single-record validation and the mean
\* item score is at least 0.6; on an empty batch it returns passed = False
\* with score 0.
C13_BatchThresholds ==
    gbatch.kind = "result" =>
        IF Len(gitems) = 0
        THEN ~gbatch.passed /\ gbatch.score.num = 0
        ELSE gbatch.passed <=> MeetsThresholds(ItemResults)

\* What validate_batch does return: passed = True exactly when the
\* thresholds are met and no item that failed has an error of its own.
C13_PassedAsComputed ==
    (gbatch.kind = "result" /\ Len(gitems) > 0) =>
        (gbatch.passed <=>
            /\ MeetsThresholds(ItemResults)
            /\ \A i \in 1..Len(gitems) :
                    ItemResults[i].passed \/ ItemResults[i].errors = <<>>)

\* the items of the batch are one record, individually valid, n >= 1 times
IdenticalValid(items) ==
    /\ Len(items) >= 1
    /\ \A i \in 1..Len(items) : [items[i] EXCEPT !.id = 0] = [items[1] EXCEPT !.id = 0]
    /\ items[1].attribution
    /\ items[1].body_len > 0
    /\ ValidateScrapedContent(items[1]).passed

HasError(errors, e) == \E i \in 1..Len(errors) : errors[i] = e

\* the score validate_scraped_content gives the record is at least 0.6
ScoresAtLeastMean(c) ==
    Units(ValidateScrapedContent(c).score) >= Units(Tenths(6))

\* C14, as stated: pre_processing_safety_check on a batch of n identical,
\* individually valid items of one source returns safe = False with a
\* batch-too-large error when n > 100, and safe = True when 1 <= n <= 100.
C14_BatchSizeCapAnyValid ==
    (gcheck.kind # "none" /\ IdenticalValid(gitems)) =>
        /\ gcheck.kind = "result"
        /\ IF Len(gitems) > 100
           THEN ~gcheck.safe /\ HasError(gcheck.errors, <<0, "Batch too large">>)
           ELSE gcheck.safe

\* C14, amended: pre_processing_safety_check on a batch of n identical items
\* of one source, each individually valid with a score of at least 0.6,
\* returns safe = False with a batch-too-large error when n > 100, and
\* safe = True when 1 <= n <= 100.
C14_BatchSizeCap ==
    (gcheck.kind # "none" /\ IdenticalValid(gitems) /\ ScoresAtLeastMean(gitems[1])) =>
        /\ gcheck.kind = "result"
        /\ IF Len(gitems) > 100
           THEN ~gcheck.safe /\ HasError(gcheck.errors, <<0, "Batch too large">>)
           ELSE gcheck.safe

\* a batch of 101 valid records was turned down
C14_Witness ==
    /\ gpc = "returned"
    /\ gcheck.kind = "result"
    /\ IdenticalValid(gitems)
    /\ Len(gitems) = 101
    /\ ~gcheck.safe

\* a batch of 100 valid records was let through
C14_WitnessAtCap ==
    /\ gpc = "returned"
    /\ gcheck.kind = "result"
    /\ IdenticalValid(gitems)
    /\ Len(gitems) = 100
    /\ gcheck.safe

\* C15: a batch with items of two distinct attribution source names always
\* fails pre_processing_safety_check, which returns safe = False with a
\* mixed-sources error whatever the validity of the individual items.
C15_MixedSourcesRejected ==
    (gcheck.kind # "none" /\ MixedSources(gitems)) =>
        /\ gcheck.kind = "result"
        /\ ~gcheck.safe
        /\ HasError(gcheck.errors, <<0, "Mixed sources in single batch">>)

\* Whenever the check returns for such a batch, it returns safe = False with
\* the mixed-sources error.
C15_RejectedWhenReturned ==
    (gcheck.kind = "result" /\ MixedSources(gitems)) =>
        /\ ~gcheck.safe
        /\ HasError(gcheck.errors, <<0, "Mixed sources in single batch">>)

\* ------------------------------------------------------------------------
\* Claims about best-effort persistence
\* ------------------------------------------------------------------------

\* the manifest write was attempted once: it either gave the key or the
\* error of the report
ManifestAttempted(res) ==
    LET failed == Cardinality({i \in 1..Len(res.errors) : res.errors[i] = <<"Manifest", 0>>})
    IN  (IF res.manifest_key # NoKey THEN 1 ELSE 0) + failed = 1

\* every item write was attempted: each item counts as uploaded or failed
ItemsAttempted(w) ==
    ures[w].successful_uploads + ures[w].failed_uploads = Len(ubatch[w])

\* C16: for every batch upload_batch is called on, it attempts exactly one
\* manifest write, after all item writes have been attempted, also when item
\* writes failed; a failed manifest write is reported in the errors of the
\* report.
C16_BestEffortPersistence ==
    \A w \in Writers :
        upc[w] \in {"returned", "raised"} =>
            /\ upc[w] = "returned"
            /\ ItemsAttempted(w)
            /\ ManifestAttempted(ures[w])

\* Once upload_batch has its storage client, it ends with every item write
\* and one manifest write attempted.
C16_WhenClientObtained ==
    \A w \in Writers :
        /\ upc[w] = "returned" => ItemsAttempted(w) /\ ManifestAttempted(ures[w])
        /\ upc[w] \in {"items", "put"} =>
                /\ ures[w].manifest_key = NoKey
                /\ ures[w].successful_uploads + ures[w].failed_uploads = ui[w] - 1

\* The manifest step comes after the last item, and whether it fails or not
\* it leaves every record object in storage as it is.
C16_ManifestStep ==
    [][\A w \in Writers :
        (upc[w] = "items" /\ upc'[w] = "returned") =>
            /\ ui[w] = Len(ubatch[w]) + 1
            /\ \A k \in DOMAIN storage :
                    /\ k \in DOMAIN storage'
                    /\ storage[k].kind = "record" => storage'[k] = storage[k]]_vars

\* A failed item write is followed by the writes of the next items: an item
\* was written after an earlier one had failed.
C16_WitnessItemFailed ==
    /\ upc[1] = "returned"
    /\ ures[1].failed_uploads = 1
    /\ ures[1].successful_uploads >= 1
    /\ ures[1].manifest_key # NoKey
    /\ ubatch[1][1].s3_key = CtorKey(ubatch[1][1].base)

\* A failed manifest write after the items were written.
C16_WitnessManifestFailed ==
    /\ upc[1] = "returned"
    /\ ures[1].successful_uploads = MaxBatch
    /\ ures[1].manifest_key = NoKey
    /\ \A i \in 1..MaxBatch : ures[1].uploaded_keys[i] \in DOMAIN storage

\* ------------------------------------------------------------------------
\* Claims about the run of scrape_articles
\* ------------------------------------------------------------------------

\* the URLs whose processing gave a record
Succeeded == {i \in 1..surls : sres[i].kind = "item"}

\* the records of the URLs that succeeded are the scraped items, in the
\* order of the URLs
OnlyFailedExcluded ==
    /\ Len(scraped_items) = Cardinality(Succeeded)
    /\ \A i \in Succeeded :
            LET k == Cardinality({j \in Succeeded : j <= i})
            IN  [scraped_items[k] EXCEPT !.id = 0] = [sres[i].item EXCEPT !.id = 0]

\* C17 (per-URL isolation): in scrape_articles a failure while processing
\* one URL, at any stage, excludes only that URL from the batch: the other
\* URLs can still be processed, what they gave is kept, and the run goes on
\* to validation with the records of all URLs that succeeded.
C17_PerUrlIsolation ==
    /\ [](sdriver = "scrape_articles" =>
            /\ spc = "fetch" =>
                    \A i \in 1..surls :
                        sres[i].kind = "pending" => ENABLED ScrapeProcessUrl(i)
            /\ (spc = "fetch" /\ \A i \in 1..surls : sres[i].kind # "pending") =>
                    ENABLED ScrapeCollect
            /\ spc \notin {"discover", "fetch"} => OnlyFailedExcluded)
    /\ [][(sdriver = "scrape_articles" /\ spc = "fetch") =>
            /\ spc' \in {"fetch", "validate"}
            /\ \A i \in 1..surls :
                    sres[i].kind # "pending" => sres'[i] = sres[i]]_vars

\* The enhancement hook raised for the first URL; the record of the second
\* URL was validated, gated and uploaded.
C17_Witness ==
    /\ sdriver = "scrape_articles"
    /\ spc = "returned"
    /\ sret.kind = "batch"
    /\ surls = 2
    /\ sres[1].stage = "hook_raised"
    /\ sres[2].kind = "item"
    /\ Len(sbatch) = 1
    /\ ures[1].successful_uploads = 1

\* scrape_articles has returned after a discovery that found no URL
EndedWithoutUrls ==
    /\ sdriver = "scrape_articles"
    /\ spc = "returned"
    /\ surls = 0
    /\ faults = 0

\* none of the later stages was invoked
NoStageInvoked ==
    /\ sres = <<>>
    /\ scraped_items = <<>> /\ validated_items = <<>>
    /\ sgate = NoCheck
    /\ upc = [w \in Writers |-> "idle"]
    /\ storage \in {<<>>, [k \in {BaseKey("k1")} |-> ForeignObject]}

\* C18: when discovery returns zero URLs, scrape_articles returns at once an
\* empty batch that carries a descriptive reason, without invoking fetch,
\* extraction, validation, the safety gate or the upload.
C18_ZeroUrls ==
    EndedWithoutUrls =>
        /\ sret.kind = "empty"
        /\ sret.reason # None
        /\ NoStageInvoked

\* With zero URLs no later stage is invoked, whatever is returned.
C18_NoStageInvoked == EndedWithoutUrls => NoStageInvoked

\* C19: scrape_articles always completes and returns a ScrapingBatch,
\* possibly empty, and never raises to its caller, for every outcome of its
\* stages and every configured source name.
C19_NeverRaises ==
    (sdriver = "scrape_articles" /\ spc = "returned") =>
        sret.kind \in {"batch", "empty"}

\* For a source name that is a value of the Source enum scrape_articles
\* returns a batch whatever its stages did.
C19_ReturnsForEnumNames ==
    (sdriver = "scrape_articles" /\ spc = "returned"
        /\ sconfig.source_name \in SourceValues) =>
            sret.kind \in {"batch", "empty"}

\* ------------------------------------------------------------------------
\* Claims about a record's derived fields
\* ------------------------------------------------------------------------

\* C20: after any sequence of operations that set a record's body text
\* (construction, an enhancement hook, a later assignment) its word_count is
\* the number of whitespace-separated words of the current body and its
\* content_hash is the hash of the current body.
C20_DerivedInSync ==
    rpc \in {"made", "assigned"} =>
        /\ word_count = WordCount(content)
        /\ content_hash = Digest(content)

\* Right after the construction of a record with a non-empty body both
\* fields are those of the body.
C20_InSyncWhenConstructed ==
    (rpc = "made" /\ content # <<>>) =>
        /\ word_count = WordCount(content)
        /\ content_hash = Digest(content)

\* ------------------------------------------------------------------------
\* Claims about storage keys
\* ------------------------------------------------------------------------

\* C21: a record's s3_key, computed at construction, is afterwards changed
\* only by the collision-avoidance procedure, that is only when the derived
\* key was found to exist in storage; an upload that meets no collision
\* leaves it unchanged.
C21_KeyChangedOnCollisionOnly ==
    [][\A w \in Writers :
        \A i \in 1..Len(ubatch[w]) :
            (Len(ubatch'[w]) = Len(ubatch[w])
                /\ ubatch'[w][i].s3_key # ubatch[w][i].s3_key) =>
                    KeyExists(storage, BaseKey(ubatch[w][i].base))]_vars

\* Every successful write sets the record's s3_key to the key written.
C21_KeySetByEveryUpload ==
    [][\A w \in Writers :
        (upc[w] = "put" /\ storage' # storage) =>
            ubatch'[w][ui[w]].s3_key = ukey[w]]_vars

\* the numeric suffixes of base b whose key is not in storage
FreeSuffixes(b) == {c \in 1..99 : NumKey(b, c) \notin DOMAIN storage}

\* C22 (suffix numbering): an upload whose derived base key is not in
\* storage goes to the base key; a colliding upload gets the lowest numeric
\* suffix in 001..099 whose key is not yet in storage, so that records of one
\* base key uploaded in a row go to the base key, _001, _002, ...
C22_SuffixNumbering ==
    \A w \in Writers :
        upc[w] = "put" =>
            LET b == ubatch[w][ui[w]].base
            IN  IF BaseKey(b) \notin DOMAIN storage
                THEN ukey[w] = BaseKey(b)
                ELSE FreeSuffixes(b) # {} =>
                        \E c \in FreeSuffixes(b) :
                            /\ ukey[w] = NumKey(b, c)
                            /\ \A d \in 1..(c - 1) : d \notin FreeSuffixes(b)

\* three records of one base key went to the base key, _001 and _002
C22_Witness ==
    /\ upc[1] = "returned"
    /\ Len(ubatch[1]) = 3
    /\ \E b \in Bases :
        ures[1].uploaded_keys = <<BaseKey(b), NumKey(b, 1), NumKey(b, 2)>>

\* ------------------------------------------------------------------------
\* Claims about the artist label
\* ------------------------------------------------------------------------

\* none of the title patterns and none of the content patterns yields a name
NoStrategyMatches == ~TitleArtist(atitle, 1).matched /\ ~BodyArtist(abody, 1).matched

\* the record has an attribution whose source name is made of letters only
PlainSource ==
    /\ asource.present
    /\ asource.source # <<>>
    /\ \A i \in 1..Len(asource.source) : asource.source[i] \in {"a", "B"}

\* C23 (fallback artist label): when none of the strategies matches, the
\* label _extract_artist_name returns for a record whose source name is
\* made of letters is the word "various", an underscore and the lower-cased
\* source name.
C23_FallbackLabel ==
    (apc = "returned" /\ NoStrategyMatches /\ PlainSource) =>
        alabel = VariousPrefix \o Lower(asource.source)

\* what the code returns there: "various" and the source name go through
\* the sanitiser together, which drops the underscore between them.
C23_FallbackSanitised ==
    (apc = "returned" /\ NoStrategyMatches /\ asource.present) =>
        alabel = SanitizeArtistName(VariousPrefix \o asource.source)

\* ------------------------------------------------------------------------
\* Claims about the orchestrator
\* ------------------------------------------------------------------------

Phases == <<"safety_checks", "scraper_execution", "post_validation">>

Entered(phase) == \E i \in 1..Len(lphases) : lphases[i] = phase

\* C30 (phased execution): lambda_handler goes through safety checks,
\* scraper execution and post-execution validation in this order; scrapers
\* are executed only if every pre-execution safety check passed; the
\* response is 200 only if the post-execution validation passed; and an
\* error response returned after scraper execution started finds
\* rollback_performed true.
C30_PhasedExecution ==
    /\ Len(lphases) <= Len(Phases) /\ lphases = SubSeq(Phases, 1, Len(lphases))
    /\ Entered("scraper_execution") =>
        /\ safety_passed = "passed"
        /\ Len(lresults.safety_checks) = Len(SafetyChecks)
        /\ \A i \in 1..Len(SafetyChecks) :
            /\ lresults.safety_checks[i].name = SafetyChecks[i]
            /\ lresults.safety_checks[i].passed
    /\ lresults.scrapers_executed # <<>> => Entered("scraper_execution")
    /\ lresp.statusCode = 200 =>
        /\ Entered("post_validation")
        /\ validation_passed = "passed"
    /\ (lresp.statusCode = 500 /\ Entered("scraper_execution")) =>
        lresults.rollback_performed

\* an error response after two scrapers ran, one of them raising
C30_Witness ==
    /\ lpc = "returned"
    /\ lresp.statusCode = 500
    /\ lphases = Phases
    /\ Len(lresults.scrapers_executed) = 1
    /\ lresults.errors = 1
    /\ lresults.rollback_performed

\* a success response after a scraper ran
C30_WitnessSuccess ==
    /\ lpc = "returned"
    /\ lresp.statusCode = 200
    /\ lresults.total_scraped > 0
    /\ ~lresults.rollback_performed

\* ------------------------------------------------------------------------
\* Claims about the order of a batch
\* ------------------------------------------------------------------------

\* the URLs that gave a record, as their tasks ended, and in list order
CompletionOrder == SelectSeq(sdone, LAMBDA i : sres[i].kind = "item")
UrlOrder == SelectSeq([i \in 1..surls |-> i], LAMBDA i : sres[i].kind = "item")

\* the records of these URLs
ItemsOf(order) == Numbered([k \in 1..Len(order) |-> sres[order[k]].item])

\* sub holds records of list, in the order of list
SubListInOrder(sub, list) ==
    \A k \in 1..Len(sub) :
        /\ sub[k].id \in 1..Len(list)
        /\ list[sub[k].id] = sub[k]
        /\ k > 1 => sub[k - 1].id < sub[k].id

\* C24 (batch order, as stated): the records scrape_articles collected are
\* in the order in which the tasks of their URLs completed.
C24_CompletionOrder ==
    (sdriver = "scrape_articles" /\ spc = "validate") =>
        scraped_items = ItemsOf(CompletionOrder)

\* C24 (batch order, amended): the records scrape_articles collected are in
\* the order of the discovered URL list, whatever the order in which the
\* tasks completed, and the batch keeps that order.
C24_UrlOrder ==
    sdriver = "scrape_articles" =>
        /\ spc = "validate" => scraped_items = ItemsOf(UrlOrder)
        /\ spc \in {"upload", "uploading", "returned"} =>
                SubListInOrder(sbatch, scraped_items)

\* the task of the second URL ended before the task of the first, and each
\* gave a record of its own
C24_Witness ==
    /\ sdriver = "scrape_articles"
    /\ spc = "validate"
    /\ sdone = <<2, 1>>
    /\ Len(scraped_items) = 2
    /\ scraped_items[1].base # scraped_items[2].base
    /\ scraped_items[1].base = sres[1].item.base

\* ------------------------------------------------------------------------
\* Claims about the source tag and the statistics of a scraper
\* ------------------------------------------------------------------------

ArticleScrapers == {"pitchfork", "npr", "rolling_stone", "billboard"}

\* scrape_articles has assembled its batch
BatchAssembled == sdriver = "scrape_articles" /\ ssource # None

\* C28 (source tag): the batch scrape_articles assembles carries the source
\* tag of the scraper that ran it, for each of the four article scrapers,
\* so that its manifest goes under the manifest prefix of that source.
C28_SourceTag ==
    (BatchAssembled /\ sconfig.source_name \in ArticleScrapers) =>
        /\ ssource = sconfig.source_name
        /\ ManifestPrefix(ssource) = ManifestPrefix(sconfig.source_name)

\* it does for the scrapers other than rolling_stone, whose batches are
\* tagged pitchfork
C28_SourceTagButRollingStone ==
    (BatchAssembled /\ sconfig.source_name \in ArticleScrapers) =>
        ssource = IF sconfig.source_name = "rolling_stone"
                  THEN "pitchfork" ELSE sconfig.source_name

Ordered(st) ==
    /\ st.discovered >= st.fetched
    /\ st.fetched >= st.extracted
    /\ st.extracted >= st.validated
    /\ st.validated >= st.uploaded

InUnitInterval(rate) == 0 <= rate.num /\ rate.num <= rate.den

RatesInUnitInterval(st) ==
    LET g == GetStatistics(st)
    IN  /\ InUnitInterval(g.success_rate)
        /\ InUnitInterval(g.extraction_rate)
        /\ InUnitInterval(g.validation_rate)
        /\ InUnitInterval(g.upload_rate)
        /\ InUnitInterval(g.end_to_end_success)

\* C29 (statistics): after any sequence of runs of scrape_articles on one
\* scraper instance the counters satisfy discovered >= fetched >= extracted
\* >= validated >= uploaded, and every rate of get_statistics is in [0,1].
C29_StatsOrdered ==
    (sdriver = "scrape_articles" /\ spc = "returned") =>
        Ordered(stats) /\ RatesInUnitInterval(stats)

\* they do after the first run on a new instance
C29_StatsOrderedFirstRun ==
    (sdriver = "scrape_articles" /\ spc = "returned" /\ sruns = 1) =>
        Ordered(stats) /\ RatesInUnitInterval(stats)

\* ------------------------------------------------------------------------
\* Claims about two writers, the manifest and the stored records
\* ------------------------------------------------------------------------

\* writer w has looked its key up and not yet written
BetweenCheckAndWrite(w) == upc[w] = "put"

\* C25 (check-then-write race): the existence check and the write of the
\* uploader are not atomic against a second writer process. Nothing holds a
\* key between a writer's check and its write: two writers that found the
\* same key absent are both free to write it, and every write that succeeds
\* puts the writer's object at the key it chose, whatever another writer
\* has put there since, so that one object replaces the other.
C25_CheckThenWriteRace ==
    /\ [](\A w \in Writers : BetweenCheckAndWrite(w) => ENABLED UploadItemPut(w))
    /\ [][\A w \in Writers :
            ures'[w].successful_uploads = ures[w].successful_uploads + 1 =>
                /\ ukey[w] \in DOMAIN storage'
                /\ storage'[ukey[w]].id = ubatch[w][ui[w]].id]_vars

\* both writers found the key absent, both wrote it and reported it, and
\* the object of the second writer is the one the bucket holds
C25_Witness ==
    /\ \A w \in Writers : upc[w] = "returned" /\ Len(ubatch[w]) = 1
    /\ ures[1].uploaded_keys = <<BaseKey("k2")>>
    /\ ures[2].uploaded_keys = <<BaseKey("k2")>>
    /\ storage[BaseKey("k2")].id = ubatch[2][1].id
    /\ ubatch[1][1].id # ubatch[2][1].id

\* the manifest writer w has persisted
Manifest(w) == storage[ManifestKey(w)]
ManifestPersisted(w) ==
    /\ upc[w] = "returned"
    /\ ures[w].manifest_key = ManifestKey(w)

\* every key of the manifest's content_s3_keys is the key of a record this
\* upload wrote, and the list is the report's list of uploaded keys
ManifestKeysWritten(w) ==
    /\ Manifest(w).content_s3_keys = ures[w].uploaded_keys
    /\ \A i \in 1..Len(Manifest(w).content_s3_keys) :
        LET k == Manifest(w).content_s3_keys[i]
        IN  /\ k \in DOMAIN storage
            /\ storage[k].kind = "record"
            /\ \E j \in 1..Len(ubatch[w]) : storage[k].id = ubatch[w][j].id

\* C26 (manifest keys): after upload_batch every key in the persisted
\* manifest's content_s3_keys is the key of a record object written by that
\* upload, and the list agrees with the report's uploaded keys, also when
\* item writes failed.
C26_ManifestKeys ==
    \A w \in Writers : ManifestPersisted(w) => ManifestKeysWritten(w)

\* it is so when no item write failed
C26_ManifestKeysWhenAllWritten ==
    \A w \in Writers :
        (ManifestPersisted(w) /\ ures[w].failed_uploads = 0) => ManifestKeysWritten(w)

\* the record objects this model's writers have put
WrittenRecords ==
    {k \in DOMAIN storage : storage[k].kind = "record" /\ storage[k] # ForeignObject}

\* C27 (stored key): for every record object the uploader persisted, the
\* s3_key field of the stored document is the key it was written under.
C27_StoredKey ==
    \A k \in WrittenRecords : storage[k].s3_key = k

\* the stored document carries the key the record was constructed with
C27_StoredKeyIsConstructorKey ==
    \A k \in WrittenRecords : storage[k].s3_key = CtorKey(KeyName(k))

====
